---- MODULE Spec2Model ----
(***************************************************************************)
(* FaaSCacheDict (src/faas_cache_dict/faas_cache_dict.py): an OrderedDict  *)
(* of key -> (expire, value) with TTL expiry, an item budget (LRU) and a   *)
(* byte budget, one re-entrant lock, and a background purge thread.        *)
(*                                                                         *)
(* Every public method runs under self._lock, so one action is one method  *)
(* call; an action reads the clock once (time.time() = now).               *)
(***************************************************************************)
EXTENDS Integers, Sequences, FiniteSets, TLC

VARIABLES
    data,                \* the OrderedDict: sequence of [k, e, v], front = oldest
    now,                 \* time.time()
    default_ttl,         \* self.default_ttl
    _max_items,          \* self._max_items
    _max_size_user,      \* self._max_size_user
    _max_size_bytes,     \* self._max_size_bytes
    _self_byte_size,     \* self._self_byte_size
    on_delete_callable,  \* "none" | "ok" | "raises"
    _stop_purge,         \* self._stop_purge
    pc,                  \* position of the purge thread
    last,                \* the last completed call: what it was and what it gave
    touched,             \* history: the stored keys, least recently touched first
    it,                  \* the generator of __iter__: its snapshot and position
    owned,               \* the cache is referenced by something other than the thread
    self_ref,            \* the purge thread's local `self` refers to the cache
    lock,                \* self._lock: the owning thread ("" = none) and its depth
    tpc                  \* position of each calling thread

vars == <<data, now, default_ttl, _max_items, _max_size_user, _max_size_bytes,
          _self_byte_size, on_delete_callable, _stop_purge, pc, last, touched,
          it, owned, self_ref, lock, tpc>>

(* what one call under the lock, with the cache kept alive by its caller,  *)
(* leaves alone                                                            *)
aux == <<it, owned, self_ref, lock, tpc>>

cfg == <<default_ttl, _max_items, _max_size_user, _max_size_bytes,
         on_delete_callable>>

-----------------------------------------------------------------------------
(* Bounds *)

MaxTime == 2          \* the clock runs 0..MaxTime
MaxBudget == 3        \* item budgets are 1..MaxBudget

Keys == {"a", "b", "c"}
Times == 0..MaxTime

(* Python's None, and x as a value that is not None *)
None == <<>>
Some(x) == <<x>>

(* Python truthiness of an optional number: None and 0 are falsy *)
Truthy(o) == o # None /\ o[1] # 0

-----------------------------------------------------------------------------
(* Deep size estimate *)

KeySize == 1          \* get_deep_byte_size(key)
SizeofSelf == 3       \* sys.getsizeof(self)

RECURSIVE SumSet(_)
SumSet(S) == IF S = {} THEN 0 ELSE LET x == CHOOSE y \in S : TRUE IN x + SumSet(S \ {x})

getsizeof_key(k) == KeySize
getsizeof_value(v) == v

(* get_deep_byte_size(self): own size, plus each distinct value object,    *)
(* plus each key (the seen-set counts an object once)                      *)
get_deep_byte_size(d) ==
    SizeofSelf + SumSet({d[i].v : i \in 1..Len(d)}) + Len(d) * KeySize

-----------------------------------------------------------------------------
(* OrderedDict primitives (super().xxx) *)

Has(d, key) == \E i \in 1..Len(d) : d[i].k = key
Index(d, key) == CHOOSE i \in 1..Len(d) : d[i].k = key
KeysOf(d) == [i \in 1..Len(d) |-> d[i].k]
Remove(d, key) == SelectSeq(d, LAMBDA r : r.k # key)
move_to_end(d, key) == Remove(d, key) \o <<d[Index(d, key)]>>
SetRaw(d, key, e, v) ==
    IF Has(d, key) THEN [d EXCEPT ![Index(d, key)] = [k |-> key, e |-> e, v |-> v]]
    ELSE Append(d, [k |-> key, e |-> e, v |-> v])

(* the object during one call: entries, cached size, the configured hook,  *)
(* the hook calls made, the exception in flight ("" = none), the result    *)
Cache(d, sz, hook) ==
    [d |-> d, sz |-> sz, hook |-> hook, h |-> <<>>, err |-> "", ret |-> None,
     rkeys |-> <<>>]

Raise(c, e) == [c EXCEPT !.err = e]

-----------------------------------------------------------------------------
(* as is_expired, with a missing expiry read as the epoch *)
is_expired_none_as_zero(d, key, t) ==
    IF ~Has(d, key) THEN "None"
    ELSE LET expire == d[Index(d, key)].e
         IN IF (IF expire = None THEN 0 ELSE expire[1]) < t THEN "True" ELSE "False"

(* is_expired: True only when an expiry is set and lies strictly before t *)
is_expired(d, key, t) ==
    IF ~Has(d, key) THEN "None"
    ELSE LET expire == d[Index(d, key)].e
         IN IF expire # None /\ expire[1] < t THEN "True" ELSE "False"

(* as CallHook, without the except clause *)
CallHookUncaught(c, key, value) ==
    IF c.hook = "none" THEN c
    ELSE LET called == [c EXCEPT !.h = Append(@, <<key, value>>)]
         IN IF c.hook = "raises" THEN Raise(called, "Exception") ELSE called

(* the guarded hook call: self.on_delete_callable(key, value) inside       *)
(* try/except Exception, which logs and goes on                            *)
CallHook(c, key, value) ==
    IF c.hook = "none" THEN c
    ELSE LET called == [c EXCEPT !.h = Append(@, <<key, value>>)]
         IN IF c.hook = "raises"
            THEN called        \* except Exception: logger.warning(...)
            ELSE called

RECURSIVE __delitem__(_, _, _, _, _, _)
RECURSIVE _purge_expired(_, _)
RECURSIVE get_byte_size(_, _, _)
RECURSIVE _set_self_byte_size(_, _, _)
RECURSIVE DeleteEach(_, _, _, _, _)

(* as __delitem__, swallowing the KeyError of a key that is not stored *)
__delitem__lenient(c, key, is_terminal, ignore_missing, skip_byte_size_update, t) ==
    LET remove(c1) ==
            IF c1.err # "" THEN c1
            ELSE IF Has(c1.d, key) THEN [c1 EXCEPT !.d = Remove(@, key)]
            ELSE c1
        leave(c3, err) == IF c3.err # "" THEN c3 ELSE [c3 EXCEPT !.err = err]
        finally(c2) ==
            IF skip_byte_size_update THEN c2
            ELSE leave(_set_self_byte_size([c2 EXCEPT !.err = ""], FALSE, t), c2.err)
    IN finally(remove(IF is_terminal /\ Has(c.d, key)
                      THEN CallHook(c, key, c.d[Index(c.d, key)].v)
                      ELSE c))

(* as __delitem__, calling the hook before looking the key up: an absent  *)
(* key is reported with no value                                           *)
__delitem__hook_first(c, key, is_terminal, ignore_missing, skip_byte_size_update, t) ==
    LET remove(c1) ==
            IF c1.err # "" THEN c1
            ELSE IF Has(c1.d, key) THEN [c1 EXCEPT !.d = Remove(@, key)]
            ELSE IF ignore_missing THEN c1
            ELSE Raise(c1, "KeyError")
        leave(c3, err) == IF c3.err # "" THEN c3 ELSE [c3 EXCEPT !.err = err]
        finally(c2) ==
            IF skip_byte_size_update THEN c2
            ELSE leave(_set_self_byte_size([c2 EXCEPT !.err = ""], FALSE, t), c2.err)
    IN finally(remove(IF is_terminal
                      THEN CallHook(c, key, IF Has(c.d, key)
                                            THEN c.d[Index(c.d, key)].v ELSE 0)
                      ELSE c))

__delitem__(c, key, is_terminal, ignore_missing, skip_byte_size_update, t) ==
    LET \* super().__delitem__(key), and except KeyError
        remove(c1) ==
            IF c1.err # "" THEN c1
            ELSE IF Has(c1.d, key) THEN [c1 EXCEPT !.d = Remove(@, key)]
            ELSE IF ignore_missing THEN c1
            ELSE Raise(c1, "KeyError")
        \* leaving finally: its own exception, or else the one in flight
        leave(c3, err) == IF c3.err # "" THEN c3 ELSE [c3 EXCEPT !.err = err]
        \* finally: runs whatever the try block raised
        finally(c2) ==
            IF skip_byte_size_update THEN c2
            ELSE leave(_set_self_byte_size([c2 EXCEPT !.err = ""], FALSE, t), c2.err)
    IN finally(remove(IF is_terminal /\ Has(c.d, key)
                      THEN CallHook(c, key, c.d[Index(c.d, key)].v)
                      ELSE c))

(* [self.__delitem__(key, ...) for key in ks] *)
DeleteEach(c, ks, ignore_missing, skip_byte_size_update, t) ==
    IF ks = <<>> \/ c.err # "" THEN c
    ELSE DeleteEach(__delitem__(c, Head(ks), TRUE, ignore_missing,
                                skip_byte_size_update, t),
                    Tail(ks), ignore_missing, skip_byte_size_update, t)

(* as _purge_expired, taking an entry whose expiry is t as expired too *)
_purge_expired_inclusive(c, t) ==
    LET _remove == SelectSeq(KeysOf(c.d),
                             LAMBDA key : c.d[Index(c.d, key)].e # None
                                          /\ c.d[Index(c.d, key)].e[1] <= t)
        resize(c1) == IF c1.err # "" THEN c1 ELSE _set_self_byte_size(c1, TRUE, t)
    IN resize(DeleteEach(c, _remove, TRUE, TRUE, t))

(* as _purge_expired, stopping after the first expired key *)
_purge_expired_first_only(c, t) ==
    LET _remove == SelectSeq(KeysOf(c.d), LAMBDA key : is_expired(c.d, key, t) = "True")
        first(ks) == IF ks = <<>> THEN ks ELSE <<Head(ks)>>
        resize(c1) == IF c1.err # "" THEN c1 ELSE _set_self_byte_size(c1, TRUE, t)
    IN resize(DeleteEach(c, first(_remove), TRUE, TRUE, t))

_purge_expired(c, t) ==
    LET _remove == SelectSeq(KeysOf(c.d), LAMBDA key : is_expired(c.d, key, t) = "True")
        resize(c1) == IF c1.err # "" THEN c1 ELSE _set_self_byte_size(c1, TRUE, t)
    IN resize(DeleteEach(c, _remove, TRUE, TRUE, t))

(* the value returned is the sz field of the result *)
get_byte_size(c, skip_purge, t) ==
    LET measure(c1) ==
            IF c1.err # "" THEN c1 ELSE [c1 EXCEPT !.sz = get_deep_byte_size(c1.d)]
    IN IF skip_purge THEN c ELSE measure(_purge_expired(c, t))

_set_self_byte_size(c, skip_purge, t) ==
    LET assign(c1) == IF c1.err # "" THEN c1 ELSE [c1 EXCEPT !.sz = c1.sz]
    IN assign(get_byte_size(c, skip_purge, t))

-----------------------------------------------------------------------------
(* Methods *)

RECURSIVE EvictWhileFull(_, _, _)
RECURSIVE ShrinkLoop(_, _, _)
RECURSIVE TrimLoop(_, _, _)

(* as delete_oldest_item, taking the tail of the OrderedDict *)
delete_newest_item(c, t) ==
    LET delete(c1) ==
            IF c1.err # "" THEN c1
            ELSE IF c1.d # <<>>
                 THEN __delitem__(c1, c1.d[Len(c1.d)].k, TRUE, FALSE, FALSE, t)
                 ELSE Raise(c1, "EmptyCache")
    IN delete(_purge_expired(c, t))

(* as delete_oldest_item, taking the front key without purging first *)
delete_oldest_item_no_purge(c, t) ==
    IF c.d # <<>>
    THEN __delitem__(c, c.d[1].k, TRUE, FALSE, FALSE, t)
    ELSE Raise(c, "EmptyCache")

delete_oldest_item(c, t) ==
    LET delete(c1) ==
            IF c1.err # "" THEN c1
            ELSE IF c1.d # <<>> THEN __delitem__(c1, c1.d[1].k, TRUE, FALSE, FALSE, t)
            ELSE Raise(c1, "EmptyCache")
    IN delete(_purge_expired(c, t))

(* while self._max_items <= super().__len__(): self.delete_oldest_item() *)
EvictWhileFull(c, max_items, t) ==
    IF c.err # "" THEN c
    ELSE IF max_items <= Len(c.d)
         THEN EvictWhileFull(delete_oldest_item(c, t), max_items, t)
         ELSE c

(* while self.get_byte_size() > self._max_size_bytes: self.delete_oldest_item() *)
ShrinkLoop(c, max_size_bytes, t) ==
    LET test(c1) ==
            IF c1.err # "" THEN c1
            ELSE IF c1.sz > max_size_bytes
                 THEN ShrinkLoop(delete_oldest_item(c1, t), max_size_bytes, t)
                 ELSE c1
    IN IF c.err # "" THEN c ELSE test(get_byte_size(c, FALSE, t))

_shrink_to_fit_byte_size(c, max_size_bytes, t) ==
    LET loop(c1) ==
            IF c1.err = "" /\ Truthy(max_size_bytes)
            THEN ShrinkLoop(c1, max_size_bytes[1], t)
            ELSE c1
        resize(c2) == IF c2.err # "" THEN c2 ELSE _set_self_byte_size(c2, FALSE, t)
    IN resize(loop(_purge_expired(c, t)))

(* raise KeyError(key), unless the call before it raised already *)
RaiseKeyError(c) == IF c.err # "" THEN c ELSE Raise(c, "KeyError")

(* as __getitem__, without the move_to_end *)
__getitem__no_move(c, key, t) ==
    IF is_expired(c.d, key, t) = "True"
    THEN RaiseKeyError(__delitem__(c, key, TRUE, FALSE, FALSE, t))
    ELSE IF ~Has(c.d, key) THEN Raise(c, "KeyError")
    ELSE [c EXCEPT !.ret = Some(c.d[Index(c.d, key)].v)]

(* as __getitem__, leaving the expired entry where it is *)
__getitem__no_delete(c, key, t) ==
    IF is_expired(c.d, key, t) = "True" THEN Raise(c, "KeyError")
    ELSE IF ~Has(c.d, key) THEN Raise(c, "KeyError")
    ELSE [c EXCEPT !.d = move_to_end(@, key),
                   !.ret = Some(c.d[Index(c.d, key)].v)]

(* as __getitem__, purging every expired entry before the lookup *)
__getitem__purge_first(c, key, t) ==
    LET read(c1) ==
            IF c1.err # "" THEN c1
            ELSE IF ~Has(c1.d, key) THEN Raise(c1, "KeyError")
            ELSE [c1 EXCEPT !.d = move_to_end(@, key),
                            !.ret = Some(c1.d[Index(c1.d, key)].v)]
    IN read(_purge_expired(c, t))

__getitem__(c, key, t) ==
    IF is_expired(c.d, key, t) = "True"
    THEN RaiseKeyError(__delitem__(c, key, TRUE, FALSE, FALSE, t))
    ELSE IF ~Has(c.d, key) THEN Raise(c, "KeyError")
    ELSE [c EXCEPT !.d = move_to_end(@, key),
                   !.ret = Some(c.d[Index(c.d, key)].v)]

(* expire of __setitem__: the argument, or now + default_ttl, or None *)
ExpireOf(expire_at, t) ==
    IF expire_at # None THEN expire_at
    ELSE IF default_ttl # None THEN Some(t + default_ttl[1])
    ELSE None

(* super().__setitem__(key, (expire, value)); super().move_to_end(key);    *)
(* self._shrink_to_fit_byte_size()                                         *)
StoreAndShrink(c, key, expire, value, t) ==
    IF c.err # "" THEN c
    ELSE _shrink_to_fit_byte_size(
             [c EXCEPT !.d = move_to_end(SetRaw(@, key, expire, value), key)],
             _max_size_bytes, t)

(* as MakeRoom, without the test for a key that is already stored *)
MakeRoomAlways(c, key, t) ==
    IF Truthy(_max_items)
    THEN EvictWhileFull(_purge_expired(c, t), _max_items[1], t)
    ELSE c

(* if self._max_items: if key not in super().keys(): purge, then evict *)
MakeRoom(c, key, t) ==
    IF Truthy(_max_items) /\ ~Has(c.d, key)
    THEN EvictWhileFull(_purge_expired(c, t), _max_items[1], t)
    ELSE c

(* as __setitem__, purging the expired entries before the size check *)
__setitem__purge_first(c, key, value, expire_at, t) ==
    IF Truthy(_max_size_bytes)
       /\ getsizeof_key(key) + getsizeof_value(value) > _max_size_bytes[1]
    THEN Raise(_purge_expired(c, t), "DataTooLarge")
    ELSE StoreAndShrink(MakeRoom(_purge_expired(c, t), key, t), key,
                        ExpireOf(expire_at, t), value, t)

__setitem__(c, key, value, expire_at, t) ==
    IF Truthy(_max_size_bytes)
       /\ getsizeof_key(key) + getsizeof_value(value) > _max_size_bytes[1]
    THEN Raise(c, "DataTooLarge")
    ELSE StoreAndShrink(MakeRoom(c, key, t), key, ExpireOf(expire_at, t), value, t)

(* __setitem__ with the clock running: time.time() is read for the expiry *)
(* and by the first _purge_expired at t, and by every later purge (in      *)
(* delete_oldest_item and _shrink_to_fit_byte_size) at later >= t          *)
__setitem__clock(c, key, value, expire_at, t, later) ==
    LET room(c1) ==
            IF Truthy(_max_items) /\ ~Has(c1.d, key)
            THEN EvictWhileFull(_purge_expired(c1, t), _max_items[1], later)
            ELSE c1
    IN IF Truthy(_max_size_bytes)
          /\ getsizeof_key(key) + getsizeof_value(value) > _max_size_bytes[1]
       THEN Raise(c, "DataTooLarge")
       ELSE StoreAndShrink(room(c), key, ExpireOf(expire_at, t), value, later)

get(c, key, t) ==
    LET default(c1) ==
            IF c1.err = "KeyError" THEN [c1 EXCEPT !.err = "", !.ret = None] ELSE c1
    IN default(__getitem__(c, key, t))

(* as keys, without the purge *)
keys_no_purge(c, t) == [c EXCEPT !.rkeys = KeysOf(c.d)]

(* keys(): purge, then read *)
keys(c, t) ==
    LET read(c1) == IF c1.err # "" THEN c1 ELSE [c1 EXCEPT !.rkeys = KeysOf(c1.d)]
    IN read(_purge_expired(c, t))

(* [(k, v[1]) for (k, v) in super().items()] *)
items(c, t) ==
    LET read(c1) ==
            IF c1.err # "" THEN c1
            ELSE [c1 EXCEPT !.ret = Some([i \in 1..Len(c1.d) |-> <<c1.d[i].k, c1.d[i].v>>])]
    IN read(_purge_expired(c, t))

(* [v[1] for v in super().values()] *)
values(c, t) ==
    LET read(c1) ==
            IF c1.err # "" THEN c1
            ELSE [c1 EXCEPT !.ret = Some([i \in 1..Len(c1.d) |-> c1.d[i].v])]
    IN read(_purge_expired(c, t))

__len__(c, t) ==
    LET read(c1) == IF c1.err # "" THEN c1 ELSE [c1 EXCEPT !.ret = Some(Len(c1.d))]
    IN read(_purge_expired(c, t))

__contains__(c, key, t) ==
    LET read(c1) == IF c1.err # "" THEN c1 ELSE [c1 EXCEPT !.ret = Some(Has(c1.d, key))]
    IN read(_purge_expired(c, t))

(* the whole iteration, consumed at one clock reading: the purge and the   *)
(* snapshot under the lock, then each key yielded if is_expired(key) is    *)
(* False                                                                   *)
__iter__(c, t) ==
    LET yield(c1) ==
            IF c1.err # "" THEN c1
            ELSE [c1 EXCEPT !.rkeys = SelectSeq(KeysOf(c1.d),
                                         LAMBDA key : is_expired(c1.d, key, t) = "False")]
    IN yield(_purge_expired(c, t))

(* as PopEntry, removing the entry as OrderedDict.pop does: no hook call *)
PopEntryNoHook(c, r, pair, t) ==
    LET resize(c3) == IF c3.err # "" THEN c3 ELSE _set_self_byte_size(c3, FALSE, t)
        return(c4) ==
            IF c4.err # "" THEN c4
            ELSE [c4 EXCEPT !.rkeys = IF pair THEN <<r.k>> ELSE <<>>,
                            !.ret = Some(r.v)]
    IN return(resize([c EXCEPT !.d = Remove(@, r.k)]))

(* the tail pop and popitem share: hook, super().__delitem__(key),         *)
(* self._set_self_byte_size(), return                                      *)
PopEntry(c, r, pair, t) ==
    LET delete(c2) == IF c2.err # "" THEN c2 ELSE [c2 EXCEPT !.d = Remove(@, r.k)]
        resize(c3) == IF c3.err # "" THEN c3 ELSE _set_self_byte_size(c3, FALSE, t)
        return(c4) ==
            IF c4.err # "" THEN c4
            ELSE [c4 EXCEPT !.rkeys = IF pair THEN <<r.k>> ELSE <<>>,
                            !.ret = Some(r.v)]
    IN return(resize(delete(CallHook(c, r.k, r.v))))

(* as pop, looking the key up before any purge *)
pop_no_purge(c, key, t) ==
    IF ~Has(c.d, key) THEN [c EXCEPT !.ret = None]
    ELSE PopEntry(c, c.d[Index(c.d, key)], FALSE, t)

(* as popitem, whatever `last` is taking the back entry *)
popitem_back(c, lst, t) ==
    LET take(c1) ==
            IF c1.err # "" THEN c1
            ELSE IF c1.d = <<>> THEN Raise(c1, "EmptyCache")
            ELSE PopEntry(c1, c1.d[Len(c1.d)], TRUE, t)
    IN take(_purge_expired(c, t))

(* as purge, by the clear() of a plain dict *)
purge_by_clear(c, t) == [c EXCEPT !.d = <<>>]

pop(c, key, t) ==
    LET take(c1) ==
            IF c1.err # "" THEN c1
            ELSE IF ~Has(c1.d, key) THEN [c1 EXCEPT !.ret = None]
            ELSE PopEntry(c1, c1.d[Index(c1.d, key)], FALSE, t)
    IN take(_purge_expired(c, t))

popitem(c, lst, t) ==
    LET take(c1) ==
            IF c1.err # "" THEN c1
            ELSE IF c1.d = <<>> THEN Raise(c1, "EmptyCache")
            ELSE PopEntry(c1, c1.d[IF lst THEN Len(c1.d) ELSE 1], TRUE, t)
    IN take(_purge_expired(c, t))

purge(c, t) == DeleteEach(c, KeysOf(c.d), TRUE, FALSE, t)

(* value = self.__getitem__(key); super().__setitem__(key, (expire, value)) *)
Restamp(c, key, expire) ==
    IF c.err # "" THEN c
    ELSE [c EXCEPT !.d = SetRaw(@, key, expire, c.ret[1]), !.ret = None]

(* as get_ttl, reading the entry through __getitem__ *)
get_ttl_checked(c, key, now_arg, t) ==
    LET at == IF now_arg = None THEN t ELSE now_arg[1]
        read(c1) ==
            IF c1.err # "" THEN c1
            ELSE [c1 EXCEPT !.ret = IF c1.d[Index(c1.d, key)].e = None THEN None
                                    ELSE Some(c1.d[Index(c1.d, key)].e[1] - at)]
    IN read(__getitem__(c, key, t))

(* get_ttl: the raw entry's expiry less now (the argument, or the clock);  *)
(* None for an entry without expiry, KeyError for a key not stored         *)
get_ttl(c, key, now_arg, t) ==
    LET at == IF now_arg = None THEN t ELSE now_arg[1]
    IN IF ~Has(c.d, key) THEN Raise(c, "KeyError")
       ELSE IF c.d[Index(c.d, key)].e = None THEN [c EXCEPT !.ret = None]
       ELSE [c EXCEPT !.ret = Some(c.d[Index(c.d, key)].e[1] - at)]

(* as set_ttl, reading the value from the raw storage: no expiry check *)
set_ttl_raw(c, key, ttl, t) ==
    IF ttl # None /\ ~(ttl[1] >= 0) THEN Raise(c, "ValueError")
    ELSE IF ~Has(c.d, key) THEN Raise(c, "KeyError")
    ELSE [c EXCEPT !.d = SetRaw(@, key, IF ttl = None THEN None ELSE Some(t + ttl[1]),
                                 c.d[Index(c.d, key)].v)]

set_ttl(c, key, ttl, t) ==
    IF ttl # None /\ ~(ttl[1] >= 0) THEN Raise(c, "ValueError")
    ELSE Restamp(__getitem__(c, key, t), key,
                 IF ttl = None THEN None ELSE Some(t + ttl[1]))

(* as expire_at, taking the timestamp as a time to live from now *)
expire_at_relative(c, key, timestamp, t) ==
    Restamp(__getitem__(c, key, t), key, Some(t + timestamp))

expire_at(c, key, timestamp, t) ==
    Restamp(__getitem__(c, key, t), key, Some(timestamp))

(* while self._max_items < self.__len__(): self.delete_oldest_item() *)
TrimLoop(c, max_items, t) ==
    LET test(c1) ==
            IF c1.err # "" THEN c1
            ELSE IF max_items < Len(c1.d)
                 THEN TrimLoop(delete_oldest_item(c1, t), max_items, t)
                 ELSE c1
    IN IF c.err # "" THEN c ELSE test(_purge_expired(c, t))

change_max_items(c, max_items, t) ==
    IF Truthy(max_items) THEN TrimLoop(c, max_items[1], t) ELSE c

(* spec 4.4: an integer byte size is taken as it is and must be > 0 *)
user_input_byte_size_to_bytes(c, n) ==
    IF n > 0 THEN [c EXCEPT !.ret = Some(n)] ELSE Raise(c, "ValueError")

(* as __reduce__, storing the items as a plain dict does: key and value *)
__reduce__plain_items(c, t) ==
    LET export(c1) ==
            IF c1.err # "" THEN c1
            ELSE [c1 EXCEPT !.ret = Some(
                     [default_ttl |-> default_ttl,
                      _max_items |-> _max_items,
                      _max_size_user |-> _max_size_user,
                      _max_size_bytes |-> _max_size_bytes,
                      _self_byte_size |-> c1.sz,
                      on_delete_callable |-> c1.hook,
                      _pickled_items |-> [i \in 1..Len(c1.d) |->
                                            [c1.d[i] EXCEPT !.e = None]]])]
    IN export(_purge_expired(c, t))

(* __reduce__: the purge, then vars(self) without the OrderedDict's own,   *)
(* the lock, the thread and the stop flag, plus list(super().items()); ret *)
(* is the state that pickle stores                                         *)
__reduce__(c, t) ==
    LET export(c1) ==
            IF c1.err # "" THEN c1
            ELSE [c1 EXCEPT !.ret = Some(
                     [default_ttl |-> default_ttl,
                      _max_items |-> _max_items,
                      _max_size_user |-> _max_size_user,
                      _max_size_bytes |-> _max_size_bytes,
                      _self_byte_size |-> c1.sz,
                      on_delete_callable |-> c1.hook,
                      _pickled_items |-> c1.d])]
    IN export(_purge_expired(c, t))

RECURSIVE RestoreItems(_, _)
(* for key, value in pickled_items: super().__setitem__(key, value) *)
RestoreItems(d, pickled_items) ==
    IF pickled_items = <<>> THEN d
    ELSE RestoreItems(SetRaw(d, Head(pickled_items).k, Head(pickled_items).e,
                             Head(pickled_items).v),
                      Tail(pickled_items))

(* as __setstate__, leaving the loaded object stopped: the flag set and no *)
(* thread started                                                          *)
__setstate__stopped(new_state) ==
    [_lock |-> [owner |-> "", depth |-> 0], _stop_purge |-> TRUE,
     _purge_thread |-> "done"]
    @@ [new_state EXCEPT !._pickled_items = RestoreItems(<<>>, @)]

(* __setstate__ on the object that self.__class__() made: new_state gets a *)
(* new RLock and _stop_purge = False, self.__dict__.update(new_state), the *)
(* items are restored, and a new purge thread is started                   *)
__setstate__(new_state) ==
    [_lock |-> [owner |-> "", depth |-> 0], _stop_purge |-> FALSE,
     _purge_thread |-> "check"]
    @@ [new_state EXCEPT !._pickled_items = RestoreItems(<<>>, @)]

(* what other.items() gives: a list for a FaaSCacheDict, a view for a dict *)
ItemsOf(other) ==
    [ty |-> IF other.ty = "FaaSCacheDict" THEN "list" ELSE "dict_items",
     pairs |-> other.pairs]

(* self_items == other.items(): a list equals a list with the same pairs  *)
(* in the same order, and never equals a dict_items view                  *)
ListEq(self_items, other_items) ==
    other_items.ty = "list" /\ other_items.pairs = self_items

__eq__(c, other, t) ==
    LET compare(c1) ==
            IF c1.err # "" THEN c1
            ELSE IF ~(other.ty \in {"FaaSCacheDict", "dict"})  \* not hasattr(other, "items")
                 THEN [c1 EXCEPT !.ret = Some(FALSE)]
            ELSE [c1 EXCEPT !.ret = Some(ListEq(
                     [i \in 1..Len(c1.d) |-> <<c1.d[i].k, c1.d[i].v>>],
                     ItemsOf(other)))]
    IN compare(_purge_expired(c, t))

-----------------------------------------------------------------------------
(* no iteration under way, the cache held by its creator, the purge thread *)
(* not yet holding it, the lock free, no thread inside a call              *)
Callers == {"t1", "t2"}
Threads == Callers \cup {"purge_thread"}
Idle == [pos |-> "idle", call |-> <<>>]
NoIter == [on |-> FALSE, pos |-> "loop", snap |-> <<>>, rest |-> <<>>, out |-> <<>>]
Unlocked == [owner |-> "", depth |-> 0]
AuxInit ==
    /\ it = NoIter
    /\ owned = TRUE
    /\ self_ref = FALSE
    /\ lock = Unlocked
    /\ tpc = [th \in Threads |-> Idle]

-----------------------------------------------------------------------------
(* Actions: one public call each *)

(* was: what is_expired said of key when the call began *)
Done(op, key, arg, c) ==
    [op |-> op, key |-> key, arg |-> arg, err |-> c.err, ret |-> c.ret,
     rkeys |-> c.rkeys, h |-> c.h, was |-> is_expired(data, key, now)]

Self == Cache(data, _self_byte_size, on_delete_callable)

(* history: a call that stored or read key successfully touched it *)
Touch(tk, d) ==
    LET stored(t1) == SelectSeq(t1, LAMBDA x : Has(d, x))
    IN stored(IF tk # "" THEN SelectSeq(touched, LAMBDA x : x # tk) \o <<tk>>
              ELSE touched)

(* touches: the call stores or reads key when it succeeds *)
Apply(op, key, arg, c, touches) ==
    /\ data' = c.d
    /\ _self_byte_size' = c.sz
    /\ last' = Done(op, key, arg, c)
    /\ touched' = Touch(IF touches /\ c.err = "" /\ (op = "get" => c.ret # None)
                        THEN key ELSE "", c.d)

(* a call that is not a step of a generator, of the purge thread's         *)
(* reference or of the lock                                                *)
Commit(op, key, arg, c, touches) ==
    /\ Apply(op, key, arg, c, touches)
    /\ UNCHANGED aux

SetItem(K, V) ==
    \E key \in K, value \in V :
        /\ Commit("setitem", key, Some(value),
                  __setitem__(Self, key, value, None, now), TRUE)
        /\ UNCHANGED <<now, cfg, _stop_purge, pc>>

(* faas[key] = value while the clock runs from now to later *)
SetItemClock(K, V) ==
    \E key \in K, value \in V, later \in now..MaxTime :
        /\ Commit("setitem", key, Some(value),
                  __setitem__clock(Self, key, value, None, now, later), TRUE)
        /\ now' = later
        /\ UNCHANGED <<cfg, _stop_purge, pc>>

GetItem(K) ==
    \E key \in K :
        /\ Commit("getitem", key, None, __getitem__(Self, key, now), TRUE)
        /\ UNCHANGED <<now, cfg, _stop_purge, pc>>

Get(K) ==
    \E key \in K :
        /\ Commit("get", key, None, get(Self, key, now), TRUE)
        /\ UNCHANGED <<now, cfg, _stop_purge, pc>>

(* del faas[key] *)
DelItem(K) ==
    \E key \in K :
        /\ Commit("delitem", key, None,
                  __delitem__(Self, key, TRUE, FALSE, FALSE, now), FALSE)
        /\ UNCHANGED <<now, cfg, _stop_purge, pc>>

(* faas.__delitem__(key, ignore_missing=True) *)
DelItemIgnoreMissing(K) ==
    \E key \in K :
        /\ Commit("delitem_ignore_missing", key, None,
                  __delitem__(Self, key, TRUE, TRUE, FALSE, now), FALSE)
        /\ UNCHANGED <<now, cfg, _stop_purge, pc>>

Pop(K) ==
    \E key \in K :
        /\ Commit("pop", key, None, pop(Self, key, now), FALSE)
        /\ UNCHANGED <<now, cfg, _stop_purge, pc>>

PopItem ==
    \E lst \in BOOLEAN :
        /\ Commit("popitem", "", Some(IF lst THEN 1 ELSE 0),
                  popitem(Self, lst, now), FALSE)
        /\ UNCHANGED <<now, cfg, _stop_purge, pc>>

Purge ==
    /\ Commit("purge", "", None, purge(Self, now), FALSE)
    /\ UNCHANGED <<now, cfg, _stop_purge, pc>>

ListKeys ==
    /\ Commit("keys", "", None, keys(Self, now), FALSE)
    /\ UNCHANGED <<now, cfg, _stop_purge, pc>>

ListValues ==
    /\ Commit("values", "", None, values(Self, now), FALSE)
    /\ UNCHANGED <<now, cfg, _stop_purge, pc>>

ListItems ==
    /\ Commit("items", "", None, items(Self, now), FALSE)
    /\ UNCHANGED <<now, cfg, _stop_purge, pc>>

(* len(faas) *)
Length ==
    /\ Commit("len", "", None, __len__(Self, now), FALSE)
    /\ UNCHANGED <<now, cfg, _stop_purge, pc>>

(* key in faas *)
Contains(K) ==
    \E key \in K :
        /\ Commit("contains", key, None, __contains__(Self, key, now), FALSE)
        /\ UNCHANGED <<now, cfg, _stop_purge, pc>>

(* list(faas) *)
Iterate ==
    /\ Commit("iter", "", None, __iter__(Self, now), FALSE)
    /\ UNCHANGED <<now, cfg, _stop_purge, pc>>

(* The generator of __iter__ and __reversed__, one step per lock hold: a   *)
(* caller's next() runs it up to the next yield                            *)

Range(s) == {s[i] : i \in 1..Len(s)}

RECURSIVE Reverse(_)
Reverse(s) == IF s = <<>> THEN s ELSE Reverse(Tail(s)) \o <<Head(s)>>

(* with self._lock: self._purge_expired(); keys = list(super().__iter__()) *)
(* or list(super().__reversed__())                                         *)
IterStart(R) ==
    \E rev \in R :
        LET start(c1) ==
                /\ Apply("iter_start", "", Some(rev), c1, FALSE)
                /\ it' = IF c1.err # "" THEN NoIter
                         ELSE [on |-> TRUE, pos |-> "loop",
                               snap |-> IF rev THEN Reverse(KeysOf(c1.d)) ELSE KeysOf(c1.d),
                               rest |-> IF rev THEN Reverse(KeysOf(c1.d)) ELSE KeysOf(c1.d),
                               out |-> <<>>]
        IN /\ ~it.on
           /\ start(_purge_expired(Self, now))
           /\ UNCHANGED <<now, cfg, _stop_purge, pc, owned, self_ref, lock, tpc>>

(* as IterCheck, looking the key up as __getitem__ does: an expired key is *)
(* deleted as a terminal delete                                            *)
IterCheckDeleting ==
    LET key == Head(it.rest)
        check(c1) ==
            /\ Apply("iter_check", key, None, c1, FALSE)
            /\ it' = IF c1.err = "" THEN [it EXCEPT !.pos = "yield"]
                     ELSE [it EXCEPT !.rest = Tail(@)]
    IN /\ it.on /\ it.pos = "loop" /\ it.rest # <<>>
       /\ check([__getitem__(Self, key, now) EXCEPT !.ret = None])
       /\ UNCHANGED <<now, cfg, _stop_purge, pc, owned, self_ref, lock, tpc>>

(* as IterCheck, without the test: every key of the snapshot is yielded *)
IterCheckUntested ==
    LET key == Head(it.rest)
    IN /\ it.on /\ it.pos = "loop" /\ it.rest # <<>>
       /\ Apply("iter_check", key, None, Self, FALSE)
       /\ it' = [it EXCEPT !.pos = "yield"]
       /\ UNCHANGED <<now, cfg, _stop_purge, pc, owned, self_ref, lock, tpc>>

(* for key in keys: if self.is_expired(key) is False, with the lock held   *)
(* by is_expired only                                                      *)
IterCheck ==
    LET key == Head(it.rest)
    IN /\ it.on /\ it.pos = "loop" /\ it.rest # <<>>
       /\ Apply("iter_check", key, None, Self, FALSE)
       /\ it' = IF is_expired(data, key, now) = "False"
                THEN [it EXCEPT !.pos = "yield"]
                ELSE [it EXCEPT !.rest = Tail(@)]
       /\ UNCHANGED <<now, cfg, _stop_purge, pc, owned, self_ref, lock, tpc>>

(* yield key: the caller receives it, with no lock held *)
IterYield ==
    LET key == Head(it.rest)
    IN /\ it.on /\ it.pos = "yield"
       /\ Apply("iter_yield", key, None, Self, FALSE)
       /\ it' = [it EXCEPT !.pos = "loop", !.rest = Tail(@), !.out = Append(@, key)]
       /\ UNCHANGED <<now, cfg, _stop_purge, pc, owned, self_ref, lock, tpc>>

(* the loop is over: StopIteration; rkeys is what the caller received *)
IterStop ==
    /\ it.on /\ it.pos = "loop" /\ it.rest = <<>>
    /\ Apply("iter_stop", "", None, [Self EXCEPT !.rkeys = it.out], FALSE)
    /\ it' = NoIter
    /\ UNCHANGED <<now, cfg, _stop_purge, pc, owned, self_ref, lock, tpc>>

SetTtl(K, T) ==
    \E key \in K, ttl \in T :
        /\ Commit("set_ttl", key, ttl, set_ttl(Self, key, ttl, now), TRUE)
        /\ UNCHANGED <<now, cfg, _stop_purge, pc>>

ExpireAt(K, T) ==
    \E key \in K, timestamp \in T :
        /\ Commit("expire_at", key, Some(timestamp),
                  expire_at(Self, key, timestamp, now), TRUE)
        /\ UNCHANGED <<now, cfg, _stop_purge, pc>>

ChangeMaxItems(B) ==
    \E max_items \in B :
        /\ _max_items' = max_items
        /\ Commit("change_max_items", "", max_items,
                  change_max_items(Self, max_items, now), FALSE)
        /\ UNCHANGED <<now, default_ttl, _max_size_user, _max_size_bytes,
                       on_delete_callable, _stop_purge, pc>>

ChangeByteSize(B) ==
    \E max_size_bytes \in B :
        LET parsed == IF Truthy(max_size_bytes)
                      THEN user_input_byte_size_to_bytes(Self, max_size_bytes[1])
                      ELSE Self
        IN /\ _max_size_user' = max_size_bytes
           /\ _max_size_bytes' = IF parsed.err = "" THEN parsed.ret ELSE None
           /\ Commit("change_byte_size", "", max_size_bytes,
                     IF parsed.err # "" THEN parsed
                     ELSE _shrink_to_fit_byte_size([parsed EXCEPT !.ret = None],
                                                   parsed.ret, now),
                     FALSE)
           /\ UNCHANGED <<now, default_ttl, _max_items, on_delete_callable,
                          _stop_purge, pc>>

(* faas == other *)
Equals(Others) ==
    \E other \in Others :
        /\ Commit("eq", "", other, __eq__(Self, other, now), FALSE)
        /\ UNCHANGED <<now, cfg, _stop_purge, pc>>

(* pickle.loads(pickle.dumps(faas)), the load at a time `later`; the cache *)
(* from then on is the loaded one; arg is the time of the export and the   *)
(* exporter's stop flag and thread at that time                            *)
PickleRoundTrip ==
    \E later \in now..MaxTime :
        LET load(c1, new_state) ==
                /\ last' = Done("pickle", "", <<now, _stop_purge, pc>>, c1)
                /\ data' = new_state._pickled_items
                /\ default_ttl' = new_state.default_ttl
                /\ _max_items' = new_state._max_items
                /\ _max_size_user' = new_state._max_size_user
                /\ _max_size_bytes' = new_state._max_size_bytes
                /\ _self_byte_size' = new_state._self_byte_size
                /\ on_delete_callable' = new_state.on_delete_callable
                /\ touched' = KeysOf(new_state._pickled_items)
                /\ _stop_purge' = new_state._stop_purge
                /\ pc' = new_state._purge_thread
                /\ lock' = new_state._lock
            loads(c1) == load(c1, __setstate__(c1.ret[1]))
        IN /\ loads(__reduce__(Self, now))
           /\ now' = later
           /\ it' = NoIter
           /\ owned' = TRUE
           /\ self_ref' = FALSE
           /\ UNCHANGED tpc

(* faas.is_expired(key) or faas.is_expired(key, now) *)
IsExpired(K, N) ==
    \E key \in K, now_arg \in N :
        /\ Commit("is_expired", key, now_arg,
                  [Self EXCEPT !.ret = Some(is_expired(data, key,
                                     IF now_arg = None THEN now ELSE now_arg[1]))],
                  FALSE)
        /\ UNCHANGED <<now, cfg, _stop_purge, pc>>

(* faas.get_ttl(key) or faas.get_ttl(key, now) *)
GetTtl(K, N) ==
    \E key \in K, now_arg \in N :
        /\ Commit("get_ttl", key, now_arg, get_ttl(Self, key, now_arg, now), FALSE)
        /\ UNCHANGED <<now, cfg, _stop_purge, pc>>

(* faas.delete_oldest_item() *)
DeleteOldestItem ==
    /\ Commit("delete_oldest_item", "", None, delete_oldest_item(Self, now), FALSE)
    /\ UNCHANGED <<now, cfg, _stop_purge, pc>>

(* faas._purge_expired() *)
PurgeExpired ==
    /\ Commit("_purge_expired", "", None, _purge_expired(Self, now), FALSE)
    /\ UNCHANGED <<now, cfg, _stop_purge, pc>>

(* faas._purge_expired(); faas._purge_expired() by one caller: the result  *)
(* is the second call's, ret holds the entries, cached size and hook calls *)
(* the first call left                                                     *)
PurgeExpiredTwice ==
    LET second(c1) ==
            IF c1.err # "" THEN c1
            ELSE [_purge_expired([c1 EXCEPT !.h = <<>>], now)
                    EXCEPT !.ret = Some([d |-> c1.d, sz |-> c1.sz, h |-> c1.h])]
    IN /\ Commit("_purge_expired_twice", "", None,
                 second(_purge_expired(Self, now)), FALSE)
       /\ UNCHANGED <<now, cfg, _stop_purge, pc>>

Close ==
    /\ _stop_purge' = TRUE
    /\ last' = Done("close", "", None, Self)
    /\ UNCHANGED <<data, _self_byte_size, now, cfg, pc, touched, aux>>

(* time passes *)
Tick ==
    /\ now < MaxTime
    /\ now' = now + 1
    /\ last' = Done("tick", "", None, Self)
    /\ UNCHANGED <<data, _self_byte_size, cfg, _stop_purge, pc, touched, aux>>

(* _purge_thread_func, top of the loop: stop, or go to sleep *)
PurgeThreadCheck ==
    /\ pc = "check"
    /\ pc' = IF _stop_purge THEN "done" ELSE "sleep"
    /\ last' = Done("thread_check", "", None, Self)
    /\ UNCHANGED <<data, _self_byte_size, now, cfg, _stop_purge, touched, aux>>

(* _purge_thread_func after time.sleep: stop, or purge and loop *)
PurgeThreadWake ==
    /\ pc = "sleep"
    /\ IF _stop_purge
       THEN /\ pc' = "done"
            /\ last' = Done("thread_wake", "", None, Self)
            /\ UNCHANGED <<data, _self_byte_size, touched, aux>>
       ELSE /\ Commit("thread_purge", "", None, _purge_expired(Self, now), FALSE)
            /\ pc' = IF last'.err # "" THEN "done" ELSE "check"
    /\ UNCHANGED <<now, cfg, _stop_purge>>

-----------------------------------------------------------------------------
(* The state after FaaSCacheDict(default_ttl, max_size_bytes, max_items,   *)
(* on_delete_callable) with arguments the constructor accepts              *)

Construct(ttls, sizes, budgets, hooks) ==
    /\ data = <<>>
    /\ now = 0
    /\ default_ttl \in ttls
    /\ _max_size_user \in sizes
    /\ _max_size_bytes = _max_size_user
    /\ _self_byte_size = 0
    /\ _max_items \in budgets
    /\ on_delete_callable \in hooks
    /\ _stop_purge = FALSE
    /\ pc = "check"
    /\ last = Done("init", "", None, Self)
    /\ touched = <<>>
    /\ AuxInit

PurgeThread == PurgeThreadCheck \/ PurgeThreadWake \/ Close

(* as PurgeThreadAwake, not reading the stop flag *)
PurgeThreadAwakeDeaf ==
    /\ pc = "sleep"
    /\ pc' = "purge"
    /\ last' = Done("thread_wake", "", None, Self)
    /\ UNCHANGED <<data, _self_byte_size, now, cfg, _stop_purge, touched, aux>>

(* as PurgeThreadPurge, returning after the first pass *)
PurgeThreadPurgeOnce ==
    /\ pc = "purge"
    /\ Commit("thread_purge", "", None, _purge_expired(Self, now), FALSE)
    /\ pc' = "done"
    /\ UNCHANGED <<now, cfg, _stop_purge>>

(* _purge_thread_func after time.sleep, in the two steps the thread takes: *)
(* it reads the stop flag without the lock ...                             *)
PurgeThreadAwake ==
    /\ pc = "sleep"
    /\ pc' = IF _stop_purge THEN "done" ELSE "purge"
    /\ last' = Done("thread_wake", "", None, Self)
    /\ UNCHANGED <<data, _self_byte_size, now, cfg, _stop_purge, touched, aux>>

(* ... and then takes the lock in self._purge_expired(); an exception ends *)
(* the thread                                                              *)
PurgeThreadPurge ==
    /\ pc = "purge"
    /\ Commit("thread_purge", "", None, _purge_expired(Self, now), FALSE)
    /\ pc' = IF last'.err # "" THEN "done" ELSE "check"
    /\ UNCHANGED <<now, cfg, _stop_purge>>

-----------------------------------------------------------------------------
(* _purge_thread_func with its weak reference: weak_self() gives the cache *)
(* while anything refers to it, the thread's own local `self` included,    *)
(* and None from then on                                                   *)

Collected == ~owned /\ ~self_ref

(* del faas: the last reference outside the purge thread goes away *)
Drop ==
    /\ owned
    /\ owned' = FALSE
    /\ last' = Done("del", "", None, Self)
    /\ UNCHANGED <<data, _self_byte_size, now, cfg, _stop_purge, pc, touched,
                   it, self_ref, lock, tpc>>

(* as SweepCheck, without `del self` before the sleep *)
SweepCheckKeepRef ==
    /\ pc = "check"
    /\ pc' = IF Collected \/ _stop_purge THEN "done" ELSE "sleep"
    /\ self_ref' = (pc' = "sleep")
    /\ last' = Done("thread_check", "", None, Self)
    /\ UNCHANGED <<data, _self_byte_size, now, cfg, _stop_purge, touched,
                   it, owned, lock, tpc>>

(* top of the loop: self = weak_self(); return if it is None or the stop   *)
(* flag is set; else read the sleep time and del self                      *)
SweepCheck ==
    /\ pc = "check"
    /\ pc' = IF Collected \/ _stop_purge THEN "done" ELSE "sleep"
    /\ self_ref' = FALSE
    /\ last' = Done("thread_check", "", None, Self)
    /\ UNCHANGED <<data, _self_byte_size, now, cfg, _stop_purge, touched,
                   it, owned, lock, tpc>>

(* after time.sleep: self = weak_self(); return if it is None or the stop  *)
(* flag is set                                                             *)
SweepAwake ==
    /\ pc = "sleep"
    /\ pc' = IF Collected \/ _stop_purge THEN "done" ELSE "purge"
    /\ self_ref' = (pc' = "purge")
    /\ last' = Done("thread_wake", "", None, Self)
    /\ UNCHANGED <<data, _self_byte_size, now, cfg, _stop_purge, touched,
                   it, owned, lock, tpc>>

(* self._purge_expired() through the local `self`, which stays bound until *)
(* the top of the loop rebinds it or the function returns                  *)
SweepPurge ==
    /\ pc = "purge"
    /\ \E c \in {_purge_expired(Self, now)} : Apply("thread_purge", "", None, c, FALSE)
    /\ pc' = IF last'.err # "" THEN "done" ELSE "check"
    /\ self_ref' = (pc' = "check")
    /\ UNCHANGED <<now, cfg, _stop_purge, it, owned, lock, tpc>>

-----------------------------------------------------------------------------
(* self._lock, an RLock: each public method runs inside `with self._lock`, *)
(* and the helpers it calls enter `with self._lock` again                  *)

(* as CanAcquire, for a threading.Lock: the holder waits for itself *)
CanAcquirePlain(l, th) == l.owner = ""

(* RLock.acquire returns at once for the holder and when the lock is free; *)
(* any other thread waits                                                  *)
CanAcquire(l, th) == l.owner \in {"", th}

acquire(l, th) ==
    IF l.owner = th THEN [l EXCEPT !.depth = @ + 1] ELSE [owner |-> th, depth |-> 1]

release(l) == IF l.depth > 1 THEN [l EXCEPT !.depth = @ - 1] ELSE Unlocked

(* what a call under the lock does to the instance: since no other thread *)
(* reads or writes the cache until the lock is given back, it is settled   *)
(* when the lock is taken, at that clock reading                           *)
Outcome(op, key, arg, c, touches, max_items, max_size_user, max_size_bytes) ==
    [d |-> c.d, sz |-> c.sz, last |-> Done(op, key, arg, c),
     touched |-> Touch(IF touches /\ c.err = "" THEN key ELSE "", c.d),
     _max_items |-> max_items, _max_size_user |-> max_size_user,
     _max_size_bytes |-> max_size_bytes]

(* faas[key] = value *)
SetCalls(K, V) ==
    {Outcome("setitem", key, Some(value), __setitem__(Self, key, value, None, now),
             TRUE, _max_items, _max_size_user, _max_size_bytes) :
        key \in K, value \in V}

(* faas.change_max_items(max_items) *)
ItemBudgetCalls(IB) ==
    {Outcome("change_max_items", "", max_items,
             change_max_items(Self, max_items, now),
             FALSE, max_items, _max_size_user, _max_size_bytes) : max_items \in IB}

(* faas.change_byte_size(max_size_bytes) with a valid size *)
ByteBudgetCalls(BB) ==
    {Outcome("change_byte_size", "", max_size_bytes,
             _shrink_to_fit_byte_size(Self, max_size_bytes, now),
             FALSE, _max_items, max_size_bytes, max_size_bytes) : max_size_bytes \in BB}

(* a thread enters the `with self._lock` of a public method *)
LockAcquire(th, calls) ==
    /\ tpc[th].pos = "idle"
    /\ th = "purge_thread" => pc = "purge"
    /\ CanAcquire(lock, th)
    /\ lock' = acquire(lock, th)
    /\ \E call \in calls : tpc' = [tpc EXCEPT ![th] = [pos |-> "held", call |-> call]]
    /\ UNCHANGED <<data, _self_byte_size, now, cfg, _stop_purge, pc, last, touched,
                   it, owned, self_ref>>

(* the method's body, during which the helpers it calls take the lock      *)
(* again and give it back                                                  *)
LockedCall(th) ==
    /\ tpc[th].pos = "held"
    /\ CanAcquire(lock, th)
    /\ lock' = release(acquire(lock, th))
    /\ data' = tpc[th].call.d
    /\ _self_byte_size' = tpc[th].call.sz
    /\ last' = tpc[th].call.last
    /\ touched' = tpc[th].call.touched
    /\ _max_items' = tpc[th].call._max_items
    /\ _max_size_user' = tpc[th].call._max_size_user
    /\ _max_size_bytes' = tpc[th].call._max_size_bytes
    /\ tpc' = [tpc EXCEPT ![th] = [pos |-> "leaving", call |-> <<>>]]
    /\ UNCHANGED <<now, default_ttl, on_delete_callable, _stop_purge, pc,
                   it, owned, self_ref>>

(* the thread leaves the `with self._lock` of the public method, by return *)
(* or by exception; the purge thread goes back to the top of its loop, or  *)
(* ends after an exception                                                 *)
LockRelease(th) ==
    /\ tpc[th].pos = "leaving"
    /\ lock.owner = th
    /\ lock' = release(lock)
    /\ tpc' = [tpc EXCEPT ![th] = Idle]
    /\ pc' = IF th # "purge_thread" THEN pc
             ELSE IF last.err # "" THEN "done" ELSE "check"
    /\ UNCHANGED <<data, _self_byte_size, now, cfg, _stop_purge, last, touched,
                   it, owned, self_ref>>

(* self._purge_expired() of the purge thread *)
PurgeCalls ==
    {Outcome("thread_purge", "", None, _purge_expired(Self, now),
             FALSE, _max_items, _max_size_user, _max_size_bytes)}

-----------------------------------------------------------------------------
(* The constructor with any argument a caller can pass. An argument is its *)
(* Python type and its value: n for a number (a float has a whole value),  *)
(* a quantity and a unit suffix for a size string ("" is <<>>).            *)

NoArg == [ty |-> "NoneType", n |-> 0, s |-> <<>>]
IntArg(n) == [ty |-> "int", n |-> n, s |-> <<>>]
FloatArg(n) == [ty |-> "float", n |-> n, s |-> <<>>]
StrArg(s) == [ty |-> "str", n |-> 0, s |-> s]

(* bool(x) *)
TruthyArg(x) ==
    CASE x.ty = "NoneType" -> FALSE
      [] x.ty = "str" -> x.s # <<>>
      [] OTHER -> x.n # 0

(* spec 4.4: a string is a positive quantity followed by K, M, G or T *)
UnitBytes(u) ==
    CASE u \in {"K", "k"} -> 2^10
      [] u \in {"M", "m"} -> 2^20
      [] u \in {"G", "g"} -> 2^30
      [] u \in {"T", "t"} -> 2^40
      [] OTHER -> 0

user_input_to_bytes(c, x) ==
    IF x.ty = "int" THEN user_input_byte_size_to_bytes(c, x.n)
    ELSE IF Len(x.s) = 2 /\ x.s[1] > 0 /\ UnitBytes(x.s[2]) > 0
         THEN [c EXCEPT !.ret = Some(x.s[1] * UnitBytes(x.s[2]))]
         ELSE Raise(c, "ValueError")

(* the checks of __init__ in their order; ret is the parsed byte budget *)
__init__(c, ttl, size, budget) ==
    LET checked_items(c3) ==
            IF c3.err # "" THEN c3
            ELSE IF ~(budget.ty \in {"int", "NoneType"}) THEN Raise(c3, "ValueError")
            ELSE IF budget.ty = "int" /\ ~(budget.n > 0) THEN Raise(c3, "ValueError")
            ELSE c3
        checked_size(c2) ==
            IF c2.err # "" THEN c2
            ELSE IF ~(size.ty \in {"int", "str", "NoneType"}) THEN Raise(c2, "ValueError")
            ELSE IF TruthyArg(size) THEN user_input_to_bytes(c2, size)
            ELSE c2
        checked_ttl(c1) ==
            IF ~(ttl.ty \in {"int", "float", "NoneType"}) THEN Raise(c1, "ValueError")
            ELSE IF ttl.ty # "NoneType" /\ ~(ttl.n >= 0) THEN Raise(c1, "ValueError")
            ELSE c1
    IN checked_items(checked_size(checked_ttl(c)))

(* FaaSCacheDict(default_ttl, max_size_bytes, max_items, on_delete_callable): *)
(* an exception of __init__ leaves no object and no thread                    *)
New(ttls, sizes, budgets, hooks) ==
    /\ pc = "unborn"
    /\ \E ttl \in ttls, size \in sizes, budget \in budgets, hook \in hooks :
         /\ last' = Done("init", "", <<ttl, size, budget>>,
                         __init__(Self, ttl, size, budget))
         /\ IF last'.err # ""
            THEN UNCHANGED <<cfg, pc>>
            ELSE /\ default_ttl' = IF ttl.ty = "NoneType" THEN None ELSE Some(ttl.n)
                 /\ _max_size_user' = IF size.ty = "NoneType" THEN None
                                      ELSE IF size.ty = "int" THEN Some(size.n)
                                      ELSE size.s
                 /\ _max_size_bytes' = last'.ret
                 /\ _max_items' = IF budget.ty = "NoneType" THEN None
                                  ELSE Some(budget.n)
                 /\ on_delete_callable' = hook
                 /\ pc' = "check"
    /\ UNCHANGED <<data, _self_byte_size, now, _stop_purge, touched, aux>>

(* before the constructor is called *)
NoObject ==
    /\ data = <<>>
    /\ now = 0
    /\ default_ttl = None
    /\ _max_size_user = None
    /\ _max_size_bytes = None
    /\ _self_byte_size = 0
    /\ _max_items = None
    /\ on_delete_callable = "none"
    /\ _stop_purge = FALSE
    /\ pc = "unborn"
    /\ last = Done("none", "", None, Self)
    /\ touched = <<>>
    /\ AuxInit

TtlArgs == {NoArg, IntArg(-1), IntArg(0), IntArg(1), FloatArg(-1), FloatArg(1),
            StrArg(<<>>)}
SizeArgs == {NoArg, IntArg(-1), IntArg(0), IntArg(5), FloatArg(1), StrArg(<<>>),
             StrArg(<<1, "K">>), StrArg(<<1, "X">>), StrArg(<<0, "K">>)}
ItemArgs == {NoArg, IntArg(-1), IntArg(0), IntArg(1), FloatArg(1), StrArg(<<>>)}

PositiveBudgets == {Some(n) : n \in 1..MaxBudget}
ItemBudgets == {None, Some(0), Some(-1)} \cup PositiveBudgets
ByteBudgets == {None, Some(2), Some(5), Some(6)}

(* item budget and recency: three keys, one value, entries expire after 1, *)
(* the purge thread never stopped                                          *)
Init == Construct({Some(1)}, {None}, PositiveBudgets, {"ok"})
Next ==
    \/ SetItem(Keys, {1}) \/ GetItem(Keys) \/ Get(Keys) \/ DelItem(Keys)
    \/ Pop(Keys) \/ PopItem \/ Purge \/ ListKeys
    \/ SetTtl(Keys, {None, Some(0)}) \/ Tick
    \/ PurgeThreadCheck \/ PurgeThreadWake
Spec == Init /\ [][Next]_vars

TwoKeys == {"a", "b"}

(* expiry: two keys, entries with and without expiry, absolute expiry times *)
InitTTL == Construct({None, Some(0), Some(1)}, {None}, {None, Some(1)}, {"ok"})
NextTTL ==
    \/ SetItem(TwoKeys, {1}) \/ GetItem(TwoKeys) \/ Get(TwoKeys) \/ DelItem(TwoKeys)
    \/ Pop(TwoKeys) \/ PopItem \/ Purge \/ ListKeys
    \/ SetTtl(TwoKeys, {None, Some(0), Some(1)}) \/ ExpireAt(TwoKeys, Times)
    \/ Tick \/ PurgeThread
SpecTTL == InitTTL /\ [][NextTTL]_vars

(* byte budget: values of size 1 and 5 against budgets 2, 5 and 6 *)
InitSize ==
    Construct({None, Some(1)}, ByteBudgets \ {None}, {None, Some(1)}, {"ok"})
NextSize ==
    \/ SetItem(TwoKeys, {1, 5}) \/ GetItem(TwoKeys) \/ DelItem(TwoKeys)
    \/ Pop(TwoKeys) \/ Purge \/ ListKeys \/ ChangeByteSize(ByteBudgets)
    \/ Tick \/ PurgeThread
SpecSize == InitSize /\ [][NextSize]_vars

(* deletion hook: absent, well-behaved, or raising on every call *)
InitHook == Construct({Some(1)}, {None}, {None, Some(1)}, {"none", "ok", "raises"})
NextHook ==
    \/ SetItem(TwoKeys, {1, 2}) \/ GetItem(TwoKeys) \/ Get(TwoKeys)
    \/ DelItem(TwoKeys) \/ Pop(TwoKeys) \/ PopItem \/ Purge \/ ListKeys
    \/ Tick \/ PurgeThread
SpecHook == InitHook /\ [][NextHook]_vars

(* reconfiguration of the item budget with any argument a caller can pass *)
InitCfg == Construct({Some(1)}, {None}, PositiveBudgets, {"ok"})
NextCfg ==
    \/ SetItem(TwoKeys, {1}) \/ GetItem(TwoKeys) \/ DelItem(TwoKeys)
    \/ Pop(TwoKeys) \/ PopItem \/ Purge \/ ListKeys
    \/ ChangeMaxItems(ItemBudgets) \/ Tick \/ PurgeThread
SpecCfg == InitCfg /\ [][NextCfg]_vars

(* reads: two keys, two values, entries with and without expiry *)
InitRead == Construct({None, Some(1)}, {None}, {None}, {"ok"})
NextRead ==
    \/ SetItem(TwoKeys, {1, 2}) \/ SetTtl(TwoKeys, {None, Some(0)})
    \/ ListKeys \/ ListValues \/ ListItems \/ Length \/ Contains(TwoKeys)
    \/ Iterate \/ Tick
SpecRead == InitRead /\ [][NextRead]_vars

AnyByteBudgets == ByteBudgets \cup {Some(0), Some(-1)}

(* reconfiguration of both budgets with any argument a caller can pass *)
InitReconf == Construct({Some(1)}, {None}, {None, Some(2)}, {"ok"})
NextReconf ==
    \/ SetItem(TwoKeys, {1}) \/ GetItem(TwoKeys)
    \/ ChangeMaxItems(ItemBudgets) \/ ChangeByteSize(AnyByteBudgets) \/ Tick
SpecReconf == InitReconf /\ [][NextReconf]_vars

(* construction with valid and invalid arguments, then the sweeper alone *)
InitNew == NoObject
NextNew ==
    \/ New(TtlArgs, SizeArgs, ItemArgs, {"none", "ok"})
    \/ Tick \/ PurgeThreadCheck \/ PurgeThreadWake
SpecNew == InitNew /\ [][NextNew]_vars

(* the sweeper step by step, scheduled fairly; callers may stop at any time *)
InitLive == Construct({Some(1)}, {None}, {None}, {"ok", "raises"})
NextLive ==
    \/ SetItem(TwoKeys, {1}) \/ Tick \/ Close
    \/ PurgeThreadCheck \/ PurgeThreadAwake \/ PurgeThreadPurge
SpecLive ==
    /\ InitLive /\ [][NextLive]_vars
    /\ WF_vars(PurgeThreadCheck)
    /\ WF_vars(PurgeThreadAwake)
    /\ WF_vars(PurgeThreadPurge)

(* what a cache is compared with: another cache or a dict holding the     *)
(* given pairs, or a number                                                *)
PairLists ==
    {<<>>} \cup {<<(<<k, v>>)>> : k \in TwoKeys, v \in {1, 2}}
           \cup {<<(<<"a", v>>), (<<"b", w>>)>> : v, w \in {1, 2}}
           \cup {<<(<<"b", v>>), (<<"a", w>>)>> : v, w \in {1, 2}}
Others ==
    {[ty |-> ty, pairs |-> ps] : ty \in {"FaaSCacheDict", "dict"}, ps \in PairLists}
        \cup {[ty |-> "int", pairs |-> <<>>]}

(* copies and comparisons: pickle round trips while the clock runs, and    *)
(* equality with caches, dicts and numbers                                 *)
InitCopy == Construct({None, Some(1)}, {None}, {None, Some(2)}, {"ok"})
NextCopy ==
    \/ SetItem(TwoKeys, {1, 2}) \/ GetItem(TwoKeys) \/ Equals(Others)
    \/ PickleRoundTrip \/ Tick
SpecCopy == InitCopy /\ [][NextCopy]_vars

(* the clock advancing inside a Set under an item budget *)
InitClock == Construct({Some(1)}, {None}, PositiveBudgets, {"ok"})
NextClock == SetItemClock(Keys, {1}) \/ GetItem(Keys) \/ Tick
SpecClock == InitClock /\ [][NextClock]_vars

(* purge-expired called directly, once and twice in a row, over entries   *)
(* with and without expiry                                                 *)
InitPurge == Construct({Some(0), Some(1)}, {None}, {None}, {"none", "ok", "raises"})
NextPurge ==
    \/ SetItem(TwoKeys, {1, 2}) \/ SetTtl(TwoKeys, {None})
    \/ PurgeExpired \/ PurgeExpiredTwice \/ Tick
SpecPurge == InitPurge /\ [][NextPurge]_vars

(* delete_oldest_item called directly over entries with and without       *)
(* expiry, live and expired                                                *)
InitOldest == Construct({None, Some(1)}, {None}, {None}, {"none", "ok", "raises"})
NextOldest == SetItem(Keys, {1}) \/ SetTtl(Keys, {None}) \/ DeleteOldestItem \/ Tick
SpecOldest == InitOldest /\ [][NextOldest]_vars

(* deletes of stored and of absent keys, strict and with ignore_missing *)
InitDel == Construct({Some(1)}, {None}, {None}, {"none", "ok", "raises"})
NextDel ==
    \/ SetItem(Keys, {1, 2}) \/ GetItem(Keys)
    \/ DelItem(Keys) \/ DelItemIgnoreMissing(Keys) \/ Tick
SpecDel == InitDel /\ [][NextDel]_vars

(* the life of an entry: set, read, re-stamped with valid and invalid       *)
(* arguments, removed, while the clock runs                                *)
TtlInputs == {None, Some(-1), Some(0), Some(1)}
InitEntry == Construct({None, Some(1)}, {None}, {None}, {"ok"})
NextEntry ==
    \/ SetItem(TwoKeys, {1, 2}) \/ GetItem(TwoKeys) \/ Get(TwoKeys) \/ Pop(TwoKeys)
    \/ DelItem(TwoKeys) \/ ListItems
    \/ SetTtl(TwoKeys, TtlInputs) \/ ExpireAt(TwoKeys, Times) \/ Tick
SpecEntry == InitEntry /\ [][NextEntry]_vars

(* the owner sets entries, closes or lets go of the cache at any moment of *)
(* the purge thread's cycle; the thread is scheduled and its sleep ends    *)
InitGC == Construct({Some(1)}, {None}, {None}, {"ok", "raises"})
NextGC ==
    \/ (owned /\ SetItem(TwoKeys, {1}))
    \/ (owned /\ Close)
    \/ Drop \/ Tick
    \/ SweepCheck \/ SweepAwake \/ SweepPurge
SpecGC ==
    /\ InitGC /\ [][NextGC]_vars
    /\ WF_vars(SweepCheck) /\ WF_vars(SweepAwake) /\ WF_vars(SweepPurge)

(* a cache exported and loaded again at every point of its purge thread's  *)
(* life: running, asleep, told to stop, stopped                            *)
InitPickle == Construct({Some(1)}, {None}, {None}, {"ok"})
NextPickle ==
    \/ SetItem(TwoKeys, {1}) \/ Close \/ Tick
    \/ PurgeThreadCheck \/ PurgeThreadAwake \/ PurgeThreadPurge
    \/ PickleRoundTrip
SpecPickle == InitPickle /\ [][NextPickle]_vars

(* two callers and the purge thread contending for the lock; a thread     *)
(* that holds the lock is scheduled until it has given it back            *)
LockItemBudgets == {None, Some(1)}
LockByteBudgets == {None, Some(5)}
CallerCalls == SetCalls(TwoKeys, {1}) \cup ItemBudgetCalls(LockItemBudgets)
                   \cup ByteBudgetCalls(LockByteBudgets)
InitLock == Construct({Some(1)}, {None}, {None, Some(2)}, {"ok", "raises"})
NextLock ==
    \/ \E th \in Callers : LockAcquire(th, CallerCalls)
    \/ LockAcquire("purge_thread", PurgeCalls)
    \/ \E th \in Threads : LockedCall(th) \/ LockRelease(th)
    \/ PurgeThreadCheck \/ PurgeThreadAwake
    \/ Tick
SpecLock ==
    /\ InitLock /\ [][NextLock]_vars
    /\ \A th \in Threads : WF_vars(LockedCall(th)) /\ WF_vars(LockRelease(th))

(* is_expired and get_ttl asked of live, expired and absent keys, with and *)
(* without a time of their own                                             *)
NowArgs == {None} \cup {Some(t) : t \in Times}
InitPure == Construct({None, Some(1)}, {None}, {None}, {"ok", "raises"})
NextPure ==
    \/ SetItem(TwoKeys, {1, 2}) \/ DelItem(TwoKeys)
    \/ IsExpired(TwoKeys, NowArgs) \/ GetTtl(TwoKeys, NowArgs) \/ Tick
SpecPure == InitPure /\ [][NextPure]_vars

(* one caller iterating, step by step, while another sets, deletes and     *)
(* changes expiries, the clock runs and the purge thread sweeps            *)
Orders == {FALSE, TRUE}
InitIter == Construct({Some(1)}, {None}, {None}, {"ok", "raises"})
NextIter ==
    \/ IterStart(Orders) \/ IterCheck \/ IterYield \/ IterStop
    \/ SetItem(TwoKeys, {1}) \/ DelItem(TwoKeys)
    \/ Tick \/ PurgeThread
SpecIter == InitIter /\ [][NextIter]_vars

-----------------------------------------------------------------------------
(* Vocabulary of the properties *)

Min(x, y) == IF x <= y THEN x ELSE y
Suffix(s, n) == SubSeq(s, Len(s) - n + 1, Len(s))
IsSuffix(s, of) == Len(s) <= Len(of) /\ s = Suffix(of, Len(s))
Expired(r, t) == r.e # None /\ r.e[1] < t
Live(d, t) == SelectSeq(d, LAMBDA r : ~Expired(r, t))
Dead(d, t) == SelectSeq(d, LAMBDA r : Expired(r, t))
HookCalls(d) == [i \in 1..Len(d) |-> <<d[i].k, d[i].v>>]
Without(ks, key) == SelectSeq(ks, LAMBDA x : x # key)
NewExpire == IF default_ttl # None THEN Some(now + default_ttl[1]) ELSE None

Count(h, x) == Cardinality({i \in 1..Len(h) : h[i] = x})
Entry(d, key) == d[Index(d, key)]

(* C1: whenever max_items is set, the cache holds at most max_items        *)
(* entries after each completed call, the purge thread's included.         *)
C1_AtMostMaxItems ==
    (_max_items # None /\ last.err = "") => Len(data) <= _max_items[1]

(* C2: under a byte budget, after each Set either the key and value alone  *)
(* exceed the budget and the Set raised TooLarge, or the Set succeeded and *)
(* the estimated size of the whole cache is within the budget.             *)
C2_SizeWithinBudget ==
    (last.op = "setitem" /\ Truthy(_max_size_bytes))
    => IF getsizeof_key(last.key) + getsizeof_value(last.arg[1]) > _max_size_bytes[1]
       THEN last.err = "DataTooLarge"
       ELSE last.err = "" /\ get_deep_byte_size(data) <= _max_size_bytes[1]

(* C3: a Set whose key and value alone exceed the byte budget raises       *)
(* TooLarge whatever the cache holds and changes nothing: same raw         *)
(* entries, order and expiry times, same cached size, no hook call.        *)
C3_TooLargeChangesNothing ==
    [][(/\ last'.op = "setitem" /\ Truthy(_max_size_bytes)
        /\ getsizeof_key(last'.key) + getsizeof_value(last'.arg[1])
             > _max_size_bytes[1])
       => /\ last'.err = "DataTooLarge"
          /\ data' = data
          /\ _self_byte_size' = _self_byte_size
          /\ last'.h = <<>>]_vars

(* TooLarge was raised on a cache holding an entry that is expired *)
C3_Witness ==
    /\ last.op = "setitem" /\ last.err = "DataTooLarge"
    /\ \E i \in 1..Len(data) : Expired(data[i], now)

(* C4: right after a Set(k, v) that returned without error, with k not yet *)
(* expired, k is the back entry and Get(k) returns v, whatever the item    *)
(* and byte budgets are.                                                   *)
C4_SetThenGet ==
    (/\ last.op = "setitem" /\ last.err = ""
     /\ (default_ttl = None \/ default_ttl[1] > 0))
    => /\ data # <<>>
       /\ data[Len(data)].k = last.key
       /\ __getitem__(Self, last.key, now).ret = last.arg

(* C5: a Set of a new key under an item budget removes the expired entries  *)
(* first, then evicts live entries only while their number is >= max_items, *)
(* taking them from the front: what stays is the back-most max_items - 1    *)
(* live entries followed by the new one (a, b, c with max_items = 2 leaves  *)
(* b, c), the hook sees the expired entries and then the evicted ones, and  *)
(* a key read just before is kept whenever any old entry is kept.           *)
C5_SetEvictsFrontMost ==
    [][(/\ last'.op = "setitem" /\ last'.err = ""
        /\ Truthy(_max_items) /\ ~Has(data, last'.key))
       => LET live == Live(data, now)
              keep == Min(Len(live), _max_items[1] - 1)
              gone == SubSeq(live, 1, Len(live) - keep)
              room == Suffix(live, keep)
                        \o <<[k |-> last'.key, e |-> NewExpire, v |-> last'.arg[1]]>>
          IN /\ IF Truthy(_max_size_bytes) THEN IsSuffix(data', room)
                ELSE data' = room
             /\ (on_delete_callable # "none" /\ ~Truthy(_max_size_bytes))
                   => last'.h = HookCalls(Dead(data, now)) \o HookCalls(gone)
             /\ (/\ last.op = "getitem" /\ last.err = "" /\ keep >= 1
                 /\ ~Truthy(_max_size_bytes))
                   => Has(data', last.key)]_vars

(* a Set of c found a, b live with max_items = 2 and left b, c *)
C5_Witness ==
    /\ last.op = "setitem" /\ last.err = "" /\ last.key = "c"
    /\ _max_items = Some(2)
    /\ last.h = <<(<<"a", 1>>)>>
    /\ KeysOf(data) = <<"b", "c">>

(* C6: the order of the entries is the order of their last touch (insert,  *)
(* overwrite by Set, successful read), least recent first; a read or a     *)
(* re-Set of a stored key puts it at the back and keeps the other entries  *)
(* in their relative order.                                                *)
C6_OrderIsRecency ==
    [][/\ KeysOf(data') = touched'
       /\ (/\ last'.op \in {"getitem", "get", "setitem"}
           /\ last'.err = "" /\ Has(data, last'.key) /\ Has(data', last'.key))
          => /\ data'[Len(data')].k = last'.key
             /\ Without(KeysOf(data'), last'.key)
                  = SelectSeq(Without(KeysOf(data), last'.key),
                              LAMBDA x : Has(data', x))]_vars

(* a read moved the front key of three to the back *)
C6_Witness ==
    /\ last.op = "getitem" /\ last.err = "" /\ last.key = "a"
    /\ KeysOf(data) = <<"b", "c", "a">>

(* C7: an entry with expire_at = t is expired at every now >= t, now = t   *)
(* included: a Get then raises NotFound and the key is gone.               *)
C7_ExpiredFromItsExpiryTime ==
    [][(/\ last'.op = "getitem" /\ Has(data, last'.key)
        /\ Entry(data, last'.key).e # None
        /\ now >= Entry(data, last'.key).e[1])
       => last'.err = "KeyError" /\ ~Has(data', last'.key)]_vars

(* C8: an entry without expiry is never removed by time passing: after any *)
(* step it is still stored with its value and without expiry, unless the   *)
(* step was a delete, pop, set_ttl or expire_at of that key, a Set of that  *)
(* key or under a budget, a popitem, a clear or a budget change.           *)
C8_NoExpiryNeverExpires ==
    [][\A i \in 1..Len(data) :
         data[i].e = None
         => \/ /\ Has(data', data[i].k)
               /\ Entry(data', data[i].k).v = data[i].v
               /\ Entry(data', data[i].k).e = None
            \/ /\ last'.op \in {"delitem", "pop", "set_ttl", "expire_at", "setitem"}
               /\ last'.key = data[i].k
            \/ /\ last'.op = "setitem"
               /\ (Truthy(_max_items) \/ Truthy(_max_size_bytes))
            \/ last'.op \in {"popitem", "purge", "change_max_items",
                              "change_byte_size"}]_vars

(* at the end of the clock the purge thread removed an expired entry and   *)
(* left one that has no expiry                                             *)
C8_Witness ==
    /\ last.op = "thread_purge" /\ last.h # <<>>
    /\ now = MaxTime
    /\ \E i \in 1..Len(data) : data[i].e = None

(* C9: Get of a stored but expired key removes it as a terminal delete     *)
(* (one hook call with the key and its value) and raises NotFound; Get of  *)
(* an absent key raises NotFound, calls no hook and changes nothing;       *)
(* get(k, default) returns the default in both cases.                      *)
C9_GetExpiredOrAbsent ==
    [][LET key == last'.key
           gone == ~Has(data, key)
           dead == Has(data, key) /\ Expired(Entry(data, key), now)
       IN (last'.op \in {"getitem", "get"} /\ (gone \/ dead))
          => /\ IF last'.op = "getitem" THEN last'.err = "KeyError"
                ELSE last'.err = "" /\ last'.ret = None
             /\ ~Has(data', key)
             /\ gone => last'.h = <<>> /\ data' = data
             /\ dead => Count(last'.h, <<key, Entry(data, key).v>>)
                          = IF on_delete_callable = "none" THEN 0 ELSE 1]_vars

(* a Get raised NotFound after the hook was called for the expired key *)
C9_Witness ==
    /\ last.op = "getitem" /\ last.err = "KeyError" /\ last.key = "a"
    /\ Count(last.h, <<"a", 2>>) = 1

(* the same call on the same cache with a hook that does not raise *)
Replay(l, c, t) ==
    CASE l.op = "delitem" -> __delitem__(c, l.key, TRUE, FALSE, FALSE, t)
      [] l.op = "pop" -> pop(c, l.key, t)
      [] l.op = "popitem" -> popitem(c, l.arg = Some(1), t)
      [] l.op = "setitem" -> __setitem__(c, l.key, l.arg[1], None, t)
      [] l.op = "purge" -> purge(c, t)
      [] l.op = "keys" -> keys(c, t)
      [] l.op = "thread_purge" -> _purge_expired(c, t)

(* C10: with a hook that raises on every call, del, pop, popitem, a Set    *)
(* that evicts, purge-expired and clear still remove their entries, let no *)
(* hook exception out, and leave the entries, order, cached size and       *)
(* result exactly as with a hook that succeeds.                            *)
C10_RaisingHookChangesNothing ==
    [][(/\ on_delete_callable = "raises"
        /\ last'.op \in {"delitem", "pop", "popitem", "setitem", "purge",
                          "keys", "thread_purge"})
       => LET twin == Replay(last', Cache(data, _self_byte_size, "ok"), now)
          IN /\ last'.err \in {"", "KeyError", "EmptyCache"}
             /\ \A i \in 1..Len(last'.h) : ~Has(data', last'.h[i][1])
             /\ data' = twin.d
             /\ _self_byte_size' = twin.sz
             /\ last'.err = twin.err /\ last'.ret = twin.ret
             /\ last'.h = twin.h]_vars

(* a Set evicted an entry while the hook raised *)
C10_Witness ==
    /\ on_delete_callable = "raises"
    /\ last.op = "setitem" /\ last.err = "" /\ last.h # <<>>
    /\ KeysOf(data) = <<last.key>>

(* the entries of d other than key's *)
Rest(d, key) == SelectSeq(d, LAMBDA r : r.k # key)

(* C11: a Set on a key that is stored, with no byte budget, is no deletion  *)
(* and no addition: it succeeds, the live entries other than the key stay   *)
(* in order, the key goes to the back with the new value and a new expiry,  *)
(* a live key leaves the count of live entries as it was (max_items         *)
(* included), and the hook is called for the expired other entries only,    *)
(* never for the replaced value.                                            *)
C11_OverwriteEvictsNothing ==
    [][(/\ last'.op = "setitem" /\ Has(data, last'.key)
        /\ ~Truthy(_max_size_bytes))
       => /\ last'.err = ""
          /\ data' = Rest(Live(data, now), last'.key)
                       \o <<[k |-> last'.key, e |-> NewExpire, v |-> last'.arg[1]]>>
          /\ last'.was = "False" => Len(data') = Len(Live(data, now))
          /\ last'.h = IF on_delete_callable = "none" THEN <<>>
                       ELSE HookCalls(Rest(Dead(data, now), last'.key))]_vars

(* a Set replaced the value of the only entry a cache of one item may hold *)
C11_Witness ==
    /\ last.op = "setitem" /\ last.was = "False" /\ last.err = ""
    /\ _max_items = Some(1) /\ on_delete_callable = "ok"
    /\ Len(data) = 1 /\ data[1].k = last.key /\ data[1].v = 2
    /\ last.h = <<>>

Vals(d) == [i \in 1..Len(d) |-> d[i].v]

IsLive(d, key, t) == \E i \in 1..Len(d) : d[i].k = key /\ ~Expired(d[i], t)
Hooked(calls) == IF on_delete_callable = "none" THEN <<>> ELSE calls

(* C13: pop(k) never raises, whatever the hook does. If k is absent or     *)
(* expired it returns the default (None), and only the expired entries     *)
(* leave, with their hook calls; if k is live it returns k's value,        *)
(* removes k and calls the hook exactly once with (k, value).              *)
C13_PopNeverRaises ==
    [][last'.op = "pop"
       => LET key == last'.key
              live == Live(data, now)
              dead == HookCalls(Dead(data, now))
          IN /\ last'.err = ""
             /\ IF IsLive(data, key, now)
                THEN /\ last'.ret = Some(Entry(data, key).v)
                     /\ data' = Rest(live, key)
                     /\ last'.h = Hooked(dead \o <<(<<key, Entry(data, key).v>>)>>)
                     /\ on_delete_callable # "none"
                          => Count(last'.h, <<key, Entry(data, key).v>>) = 1
                ELSE /\ last'.ret = None
                     /\ data' = live
                     /\ last'.h = Hooked(dead)]_vars

(* pop of an expired key gave the default while a live entry stayed *)
C13_Witness ==
    /\ last.op = "pop" /\ last.was = "True" /\ last.ret = None
    /\ on_delete_callable = "raises"
    /\ Len(data) = 1 /\ data[1].k # last.key

(* C14: popitem(last) raises EmptyCache when no entry is stored or every   *)
(* stored entry is expired; otherwise it returns the back live entry       *)
(* (last=True) or the front live entry (last=False), removes it with one   *)
(* hook call and leaves the other live entries in order.                   *)
C14_PopItemBackOrFront ==
    [][last'.op = "popitem"
       => LET live == Live(data, now)
              dead == HookCalls(Dead(data, now))
              r == live[IF last'.arg = Some(1) THEN Len(live) ELSE 1]
          IN IF live = <<>>
             THEN /\ last'.err = "EmptyCache"
                  /\ data' = <<>>
                  /\ last'.h = Hooked(dead)
             ELSE /\ last'.err = ""
                  /\ last'.rkeys = <<r.k>> /\ last'.ret = Some(r.v)
                  /\ data' = Rest(live, r.k)
                  /\ last'.h = Hooked(dead \o <<(<<r.k, r.v>>)>>)
                  /\ on_delete_callable # "none"
                       => Count(last'.h, <<r.k, r.v>>) = 1]_vars

(* popitem(last=False) took the front entry and left the back one *)
C14_Witness ==
    /\ last.op = "popitem" /\ last.arg = Some(0) /\ last.err = ""
    /\ last.rkeys = <<"a">> /\ KeysOf(data) = <<"b">>
    /\ Len(last.h) = 1

(* C15: clear()/purge() always succeeds: with live and expired entries     *)
(* mixed it leaves raw storage empty and calls the hook exactly once for   *)
(* every entry that was stored when it started, and for nothing else.      *)
C15_PurgeEmptiesAll ==
    [][last'.op = "purge"
       => /\ last'.err = ""
          /\ data' = <<>>
          /\ Len(last'.h) = Len(Hooked(data))
          /\ on_delete_callable # "none"
               => \A i \in 1..Len(data) :
                     Count(last'.h, <<data[i].k, data[i].v>>) = 1]_vars

(* a clear removed an expired entry and a live one, and the hook raised *)
C15_Witness ==
    /\ last.op = "purge" /\ data = <<>> /\ Len(last.h) = 2
    /\ on_delete_callable = "raises"
    /\ \E i \in 1..2 : last.h[i][2] = 2

Valid(budget) == budget = None \/ budget[1] > 0

(* C16: a budget change with a valid argument stores the new budget,       *)
(* removes the expired entries and evicts from the front until the budget  *)
(* holds: change_max_items(n) leaves the n most recently touched live      *)
(* entries in order, change_byte_size(b) the longest run of back-most live *)
(* entries whose size estimate is within b, and None leaves every live     *)
(* entry; with both budgets None a Set evicts no live entry.               *)
C16_BudgetChangeTrims ==
    [][LET live == Live(data, now)
       IN /\ (last'.op = "change_max_items" /\ Valid(last'.arg))
             => /\ last'.err = ""
                /\ _max_items' = last'.arg
                /\ data' = IF last'.arg = None THEN live
                           ELSE Suffix(live, Min(Len(live), last'.arg[1]))
          /\ (last'.op = "change_byte_size" /\ Valid(last'.arg))
             => /\ last'.err = ""
                /\ _max_size_bytes' = last'.arg
                /\ IsSuffix(data', live)
                /\ last'.arg # None
                     => /\ get_deep_byte_size(data') <= last'.arg[1]
                        /\ Len(data') < Len(live)
                             => get_deep_byte_size(Suffix(live, Len(data') + 1))
                                  > last'.arg[1]
                /\ last'.arg = None => data' = live
          /\ (last'.op = "setitem" /\ _max_items = None /\ _max_size_bytes = None)
             => data' = Rest(live, last'.key)
                          \o <<[k |-> last'.key, e |-> NewExpire,
                                v |-> last'.arg[1]]>>]_vars

(* C17: change_max_items and change_byte_size reject 0 and negative        *)
(* numbers with ValueError, and then the budget and the entries are as     *)
(* before the call.                                                        *)
C17_InvalidBudgetRejected ==
    [][(/\ last'.op \in {"change_max_items", "change_byte_size"}
        /\ ~Valid(last'.arg))
       => /\ last'.err = "ValueError"
          /\ data' = data
          /\ <<_max_items', _max_size_user', _max_size_bytes'>>
               = <<_max_items, _max_size_user, _max_size_bytes>>]_vars

IsNumber(x) == x.ty \in {"int", "float"}
PositiveInt(x) == x.ty = "int" /\ x.n > 0
SizeString(x) ==
    /\ x.ty = "str" /\ Len(x.s) = 2 /\ x.s[1] > 0
    /\ x.s[2] \in {"K", "k", "M", "m", "G", "g", "T", "t"}
Absent(x) == x.ty = "NoneType"

(* C18: the constructor raises ValueError whenever default_ttl is negative *)
(* or not a number, max_items is not a positive integer, or max_size_bytes *)
(* is not a positive integer or a valid size string (None being allowed    *)
(* for each); then nothing is constructed and no sweeper is started.       *)
C18_BadConfigConstructsNothing ==
    [][(/\ last'.op = "init"
        /\ LET ttl == last'.arg[1]
               size == last'.arg[2]
               budget == last'.arg[3]
           IN \/ ~(Absent(ttl) \/ (IsNumber(ttl) /\ ttl.n >= 0))
              \/ ~(Absent(size) \/ PositiveInt(size) \/ SizeString(size))
              \/ ~(Absent(budget) \/ PositiveInt(budget)))
       => /\ last'.err = "ValueError"
          /\ pc' = "unborn"
          /\ UNCHANGED <<data, cfg, _self_byte_size, _stop_purge>>]_vars

StoredExpired(key) == Has(data, key) /\ Expired(Entry(data, key), now)

(* C19: while the stop flag is not set, every stored entry that is expired *)
(* eventually leaves raw storage although no caller touches the cache, and *)
(* a pass of the sweeper removes every expired entry with its hook call.   *)
C19_SweeperRemovesExpired ==
    /\ \A key \in TwoKeys :
          (~_stop_purge /\ StoredExpired(key))
             ~> (_stop_purge \/ ~StoredExpired(key))
    /\ [][(last'.op = "thread_purge")
            => (/\ data' = Live(data, now)
                /\ last'.h = HookCalls(Dead(data, now)))]_vars

(* a pass of the running sweeper removed an expired entry *)
C19_Witness ==
    /\ last.op = "thread_purge" /\ last.h # <<>> /\ ~_stop_purge

(* what C20 asks of every step *)
C20_Step ==
    /\ (pc = "done") => (pc' = "done" /\ last'.op # "thread_purge")
    /\ _stop_purge => _stop_purge'
    /\ (_stop_purge /\ pc \in {"check", "sleep"} /\ pc' # pc) => (pc' = "done")
    /\ (last'.op = "close")
         => (/\ _stop_purge'
             /\ UNCHANGED <<data, _self_byte_size, cfg, pc, now>>)
    /\ (_stop_purge /\ last'.op = "setitem")
         => (/\ last'.err = ""
             /\ data'[Len(data')]
                  = [k |-> last'.key, e |-> NewExpire, v |-> last'.arg[1]])

(* C20: once close() has set the stop flag the sweeper ends and stays      *)
(* ended; a wake or a loop test that sees the flag starts no purge pass;   *)
(* close() sets the flag whatever it was and leaves entries, cached size,  *)
(* configuration and sweeper position as they are; a Set after close()     *)
(* stores its entry at the back as before.                                 *)
C20_CloseStopsSweeper ==
    /\ _stop_purge ~> (pc = "done")
    /\ [][C20_Step]_vars

(* the sweeper has ended after a close, and a Set stored an entry *)
C20_Witness ==
    /\ _stop_purge /\ pc = "done"
    /\ last.op = "setitem" /\ last.err = "" /\ Has(data, last.key)

C22_EqualIffSamePairs ==
    [][(last'.op = "eq")
       => (/\ last'.err = ""
           /\ last'.ret = Some(/\ last'.arg.ty \in {"FaaSCacheDict", "dict"}
                               /\ HookCalls(Live(data, now)) = last'.arg.pairs))]_vars

KeySet(d) == {d[i].k : i \in 1..Len(d)}

(* C23: after every call that returned without error and added or removed  *)
(* an entry (a Set, or a purge of expired entries by keys(), len(), the    *)
(* membership test or the sweeper) the cached byte size is the size       *)
(* estimate of the entries now stored.                                     *)
C23_CachedSizeNeverStale ==
    [][(last'.err = "" /\ KeySet(data') # KeySet(data))
       => (_self_byte_size' = get_deep_byte_size(data'))]_vars

(* C24: under an item budget a Set of a key that is not stored returns   *)
(* without error, whatever entries are expired and also when entries       *)
(* expire while the Set runs, and the key is then stored unless its own    *)
(* expiry has passed by the end of the call.                               *)
C24_SetNeverEmptyCache ==
    [][(last'.op = "setitem" /\ Truthy(_max_items) /\ ~Has(data, last'.key))
       => (/\ last'.err = ""
           /\ Has(data', last'.key) \/ now + default_ttl[1] < now')]_vars

(* C25: a Get of a stored key that is expired removes that entry and no   *)
(* other: every other entry, expired or not, stays in raw storage as it    *)
(* was, and the hook is called for that key alone.                         *)
C25_GetExpiredRemovesOnlyKey ==
    [][(last'.op = "getitem" /\ last'.was = "True")
       => (/\ data' = Rest(data, last'.key)
           /\ last'.h = Hooked(<<(<<last'.key, Entry(data, last'.key).v>>)>>))]_vars

(* C26: a Get of a stored key that is not expired returns its value and    *)
(* moves the entry to the back; the other entries, expired ones included,  *)
(* keep their place, value and expiry, the cached size and the             *)
(* configuration stay as they were, and no hook is called.                 *)
C26_GetLiveOnlyReorders ==
    [][(last'.op = "getitem" /\ last'.was = "False")
       => (/\ last'.err = ""
           /\ last'.ret = Some(Entry(data, last'.key).v)
           /\ data' = Rest(data, last'.key) \o <<Entry(data, last'.key)>>
           /\ _self_byte_size' = _self_byte_size
           /\ UNCHANGED cfg
           /\ last'.h = <<>>)]_vars

(* a Get moved a live entry behind an expired one that is still stored *)
C26_Witness ==
    /\ last.op = "getitem" /\ last.was = "False" /\ last.err = ""
    /\ Len(data) = 2 /\ data[2].k = last.key
    /\ Expired(data[1], now)

CountKey(h, key) == Cardinality({i \in 1..Len(h) : h[i][1] = key})

(* C27: with a hook configured, in every step of every interleaving of     *)
(* callers and sweeper (del, pop, popitem, a Set that evicts, a Get of an  *)
(* expired key, keys(), the sweeper's pass, clear) each entry that leaves  *)
(* raw storage has exactly one hook call, made with its key and the value  *)
(* it had in storage, and no hook call is made for a key that did not      *)
(* leave. (An entry that a Set stored and a byte budget evicted within     *)
(* the same call left with the value the Set gave it.)                     *)
C27_HookExactlyOnce ==
    [][(on_delete_callable # "none")
       => (\A key \in Keys :
             LET set == last'.op = "setitem" /\ last'.key = key
             IN IF Has(data, key) /\ ~Has(data', key)
                THEN /\ CountKey(last'.h, key) = 1
                     /\ \/ Count(last'.h, <<key, Entry(data, key).v>>) = 1
                        \/ set /\ Count(last'.h, <<key, last'.arg[1]>>) = 1
                ELSE IF set /\ ~Has(data', key)
                THEN CountKey(last'.h, key) = Count(last'.h, <<key, last'.arg[1]>>)
                     /\ CountKey(last'.h, key) <= 1
                ELSE CountKey(last'.h, key) = 0)]_vars

(* the sweeper removed two expired entries, one hook call each *)
C27_Witness ==
    /\ last.op = "thread_purge" /\ on_delete_callable = "ok"
    /\ Len(last.h) = 2 /\ last.h[1][1] # last.h[2][1]
    /\ data = <<>>

(* the key a remover obtained, or "" *)
Obtained(l) ==
    CASE l.op = "delitem" -> IF l.err = "" THEN l.key ELSE ""
      [] l.op = "pop" -> IF l.ret # None THEN l.key ELSE ""
      [] l.op = "popitem" -> IF l.err = "" THEN l.rkeys[1] ELSE ""
      [] OTHER -> ""

C29_PurgeExpiredExactly ==
    [][(last'.op = "_purge_expired")
       => (/\ last'.err = ""
           /\ data' = Live(data, now)
           /\ last'.h = Hooked(HookCalls(Dead(data, now))))]_vars

(* purge-expired removed one entry, the hook raising, and left the other *)
C29_Witness ==
    /\ last.op = "_purge_expired" /\ on_delete_callable = "raises"
    /\ Len(last.h) = 1 /\ Len(data) = 1

(* C30: of two purge-expired calls in a row, at one clock value and with   *)
(* no call between them, the second removes nothing, calls no hook and     *)
(* leaves the entries and the cached size as the first left them.          *)
C30_PurgeExpiredIdempotent ==
    [][(last'.op = "_purge_expired_twice")
       => (/\ last'.err = ""
           /\ last'.h = <<>>
           /\ data' = last'.ret[1].d
           /\ _self_byte_size' = last'.ret[1].sz
           /\ UNCHANGED cfg)]_vars

(* the first of the two calls removed an entry and left another *)
C30_Witness ==
    /\ last.op = "_purge_expired_twice" /\ last.ret[1].h # <<>>
    /\ data # <<>>

C32_DeleteOldestItem ==
    [][(last'.op = "delete_oldest_item")
       => IF Live(data, now) = <<>>
          THEN /\ last'.err = "EmptyCache"
               /\ data' = <<>>
               /\ last'.h = Hooked(HookCalls(Dead(data, now)))
          ELSE /\ last'.err = ""
               /\ data' = Tail(Live(data, now))
               /\ last'.h = Hooked(HookCalls(Dead(data, now)
                                             \o <<Head(Live(data, now))>>))]_vars

(* the call purged an expired entry, removed the front live entry and left *)
(* another                                                                 *)
C32_Witness ==
    /\ last.op = "delete_oldest_item" /\ last.err = ""
    /\ Len(last.h) = 2 /\ Len(data) = 1

(* C33: a delete of a key that is not stored raises KeyError, or returns   *)
(* normally when ignore_missing is set; either way the hook is not called  *)
(* for that key and the entries that are not expired stay as they were,    *)
(* with their values and expiries, in the same order.                      *)
C33_DeleteAbsentKey ==
    [][(last'.op \in {"delitem", "delitem_ignore_missing"} /\ ~Has(data, last'.key))
       => (/\ last'.err = IF last'.op = "delitem" THEN "KeyError" ELSE ""
           /\ \A i \in 1..Len(last'.h) : last'.h[i][1] # last'.key
           /\ data' = Live(data, now))]_vars

(* a delete with ignore_missing of a key that is not stored returned while *)
(* two other entries stayed, the hook configured                           *)
C33_Witness ==
    /\ last.op = "delitem_ignore_missing" /\ last.was = "None" /\ last.err = ""
    /\ Len(data) = 2 /\ on_delete_callable # "none"

(* C34: an entry that is expired when a call begins is, when the call      *)
(* ends, either removed or still the same expired entry, unless the call   *)
(* is a Set of its key, which stores a new entry: no get, subscript or pop *)
(* returns its value, items() does not list it, and set_ttl (with a valid  *)
(* ttl) and expire_at on it raise KeyError and remove it. A key that is    *)
(* not stored when a call begins is stored when it ends only if the call   *)
(* is a successful Set of that key.                                        *)
C34_Step ==
    \A k \in TwoKeys :
        /\ (Has(data, k) /\ Expired(Entry(data, k), now))
           => (/\ Has(data', k)
                  => (\/ Entry(data', k) = Entry(data, k)
                      \/ last'.op = "setitem" /\ last'.key = k /\ last'.err = "")
               /\ (last'.key = k /\ last'.op \in {"getitem", "get", "pop"})
                  => (last'.ret = None)
               /\ (last'.op = "items")
                  => (\A i \in 1..Len(last'.ret[1]) : last'.ret[1][i][1] # k)
               /\ (last'.key = k /\ last'.op \in {"set_ttl", "expire_at"})
                  => (IF last'.op = "set_ttl" /\ last'.arg # None /\ last'.arg[1] < 0
                      THEN last'.err = "ValueError"
                      ELSE last'.err = "KeyError" /\ ~Has(data', k)))
        /\ (~Has(data, k) /\ Has(data', k))
           => (last'.op = "setitem" /\ last'.key = k /\ last'.err = "")

C34_EntryLifeCycle == [][C34_Step]_vars

(* set_ttl on an expired entry raised KeyError and removed it, the other   *)
(* entry staying                                                           *)
C34_Witness ==
    /\ last.op = "set_ttl" /\ last.was = "True" /\ last.err = "KeyError"
    /\ ~Has(data, last.key) /\ Len(data) = 1

(* C35: set_ttl with a valid ttl on a key that is stored and not expired   *)
(* keeps its value, sets its expiry to now + ttl, or to none for ttl None, *)
(* and moves it to the back, the other entries staying as they were; with  *)
(* a negative ttl it raises ValueError and changes nothing. expire_at on   *)
(* such a key keeps the value, sets the expiry to the timestamp given and  *)
(* moves the key to the back; with a timestamp before the present the key  *)
(* is expired at once.                                                     *)
C35_Step ==
    LET k == last'.key
        restamped(e) == Remove(data, k) \o <<[k |-> k, e |-> e, v |-> Entry(data, k).v]>>
    IN /\ (last'.op = "set_ttl" /\ last'.arg # None /\ last'.arg[1] < 0)
          => (last'.err = "ValueError" /\ data' = data)
       /\ (last'.op = "set_ttl" /\ ~(last'.arg # None /\ last'.arg[1] < 0)
             /\ last'.was = "False")
          => (/\ last'.err = ""
              /\ data' = restamped(IF last'.arg = None THEN None
                                    ELSE Some(now + last'.arg[1])))
       /\ (last'.op = "expire_at" /\ last'.was = "False")
          => (/\ last'.err = ""
              /\ data' = restamped(last'.arg)
              /\ (last'.arg[1] < now) => (is_expired(data', k, now') = "True"))

C35_SetTtlAndExpireAt == [][C35_Step]_vars

(* expire_at with a timestamp in the past on one of two live entries: it   *)
(* is now the back one, and expired                                        *)
C35_Witness ==
    /\ last.op = "expire_at" /\ last.was = "False" /\ last.err = ""
    /\ last.arg[1] < now /\ Len(data) = 2 /\ data[2].k = last.key
    /\ is_expired(data, last.key, now) = "True"

(* C36: the purge thread's local refers to the cache only between its wake *)
(* and the next top of its loop (the stop-flag checks and the purge pass), *)
(* never while it sleeps. A cache that nothing refers to stays so: it is   *)
(* never purged and never referred to again. A thread that wakes after the *)
(* owner let go of the cache returns without a purge, and a cache the      *)
(* owner let go of leads to the thread's end.                              *)
C36_Step ==
    /\ Collected => (Collected' /\ data' = data /\ last'.op # "thread_purge")
    /\ (~owned /\ pc = "sleep" /\ pc' # "sleep") => (pc' = "done" /\ data' = data)
    /\ (pc = "purge" /\ pc' # "purge") => self_ref

C36_WeakReference ==
    /\ [](self_ref => pc \in {"purge", "check"})
    /\ [](pc = "sleep" => ~self_ref)
    /\ [](~owned /\ pc \in {"sleep", "done"} => Collected)
    /\ [][C36_Step]_vars
    /\ (~owned ~> pc = "done")

(* the owner let go of a cache that holds entries and was not closed; the  *)
(* thread has ended                                                        *)
C36_Witness ==
    /\ ~owned /\ pc = "done" /\ ~_stop_purge /\ data # <<>>
    /\ last.op = "thread_wake"

C38_Step ==
    (last'.op \in {"setitem", "change_max_items", "change_byte_size"} /\ last' # last)
    => (Len(last'.h) <= Len(data) + (IF last'.op = "setitem" THEN 1 ELSE 0))

C38_NoOperationBlocks ==
    /\ \A th \in Threads : (lock.owner = th) ~> (lock.owner # th)
    /\ [](\A th \in Threads : (tpc[th].pos # "idle") <=> (lock.owner = th))
    /\ [][C38_Step]_vars

(* a Set under an item budget evicted an entry with a raising hook, its    *)
(* caller still holding the lock while the purge thread waits for it       *)
C38_Witness ==
    /\ last.op = "setitem" /\ Len(last.h) = 1 /\ on_delete_callable = "raises"
    /\ lock.owner \in Callers /\ pc = "purge"

(* C39: is_expired and get_ttl leave the entries, their order, the cached  *)
(* size and the configuration as they are and call no hook, whether or not *)
(* expired entries are stored, and do not raise, except get_ttl for a key   *)
(* that is not stored; is_expired gives None for a key that is not stored; *)
(* get_ttl of a stored entry that is expired gives a negative number.      *)
C39_Step ==
    /\ (last'.op \in {"is_expired", "get_ttl"})
       => (/\ data' = data
           /\ _self_byte_size' = _self_byte_size
           /\ last'.h = <<>>
           /\ UNCHANGED cfg
           /\ last'.err = IF last'.op = "get_ttl" /\ ~Has(data, last'.key)
                          THEN "KeyError" ELSE "")
    /\ (last'.op = "is_expired" /\ ~Has(data, last'.key))
       => (last'.ret = Some("None"))
    /\ (last'.op = "get_ttl" /\ last'.arg = None /\ last'.was = "True")
       => (last'.ret # None /\ last'.ret[1] < 0)

C39_PureReads == [][C39_Step]_vars

(* get_ttl of an expired entry gave a negative number, and the entry and   *)
(* another expired one are still stored                                    *)
C39_Witness ==
    /\ last.op = "get_ttl" /\ last.arg = None /\ last.was = "True"
    /\ last.ret # None /\ last.ret[1] < 0
    /\ Len(Dead(data, now)) = 2

C40_Step ==
    /\ (last'.op \in {"iter_start", "iter_check", "iter_yield", "iter_stop"})
       => (last'.err = "")
    /\ (last'.op = "iter_check")
       => IF is_expired(data, last'.key, now) = "False"
          THEN it' = [it EXCEPT !.pos = "yield"]
          ELSE it' = [it EXCEPT !.rest = Tail(@)]
    /\ (last'.op = "iter_yield")
       => (/\ it.pos = "yield"
           /\ last'.key = Head(it.rest)
           /\ last'.key \in Range(it.snap)
           /\ last'.key \notin Range(it.out)
           /\ it'.out = Append(it.out, last'.key))
    /\ (last'.op = "iter_stop") => (last'.rkeys = it.out)
    /\ (it'.pos = "yield" /\ it.pos # "yield") => (last'.op = "iter_check")

====
